---- MODULE Spec2Model ----
(***************************************************************************)
(* The adaptive rate-limited scoring pipeline of crypto_screener.py:       *)
(* the RateLimiter, calculate_rs_score, process_crypto, the symbol loop of *)
(* __main__, the ranking and its output.                                   *)
(*                                                                         *)
(* Time is counted in ticks of 10 microseconds (Second ticks per second),  *)
(* which makes every delay the code computes from its default parameters   *)
(* and a jitter given in whole percent an exact integer.  time.time()      *)
(* reads the variable now; time.sleep(d) advances it by exactly d.         *)
(*                                                                         *)
(* Five specifications share the variables and the operators:             *)
(*   Spec         __main__: the symbol loop, KeyboardInterrupt, the ranking *)
(*   SpecLimiter  a RateLimiter as constructed, its methods interleaved     *)
(*   SpecBackoff  the methods applied to a drawn limiter state              *)
(*   SpecRank     ranking and output applied to a drawn list of results     *)
(*   SpecScore    calculate_rs_score applied to drawn windows of bars       *)
(***************************************************************************)
EXTENDS Integers, Sequences, FiniteSets, TLC

VARIABLES
    now,                      \* the wall clock, time.time()
    request_times,            \* RateLimiter.request_times
    consecutive_errors,       \* RateLimiter.consecutive_errors
    max_requests_per_minute,  \* RateLimiter.max_requests_per_minute (config)
    error_backoff_multiplier, \* RateLimiter.error_backoff_multiplier (config)
    calls,                    \* number of RateLimiter calls made by a harness
    last,                     \* what the last RateLimiter call did
    admitted,                 \* every timestamp wait_if_needed ever recorded
    delays,                   \* dynamic delays computed since the last on_success
    all_cryptos,              \* the symbol list of __main__
    pc,                       \* where __main__ stands
    idx,                      \* position in all_cryptos of the current symbol
    fetched,                  \* what cd.get_data did for the current symbol
    result,                   \* the value process_crypto returned
    results,                  \* the list results of __main__
    interrupted,              \* where KeyboardInterrupt was raised, if it was
    ranked,                   \* targets, target_score and failed_targets
    started,                  \* number of symbols process_crypto was called for
    outcomes,                 \* the fetch outcome of every symbol fetched
    requests,                 \* positions of the symbols cd.get_data was called for
    timeframe,                \* args.timeframe
    days,                     \* args.days
    windows,                  \* the arguments of every cd.get_data call
    signals,                  \* the on_error / on_success calls of process_crypto
    output,                   \* what __main__ printed, wrote and sent of the ranking
    scoring,                  \* a call of calculate_rs_score: arguments and value
    splitting,                \* a call of _split_message: arguments and value
    sending                   \* a call of send_similarity_results_to_discord

rlvars == <<now, request_times, consecutive_errors, max_requests_per_minute,
            error_backoff_multiplier, calls, last, admitted, delays>>

loopvars == <<all_cryptos, pc, idx, fetched, result, results, interrupted,
              ranked, started, outcomes, requests, timeframe, days, windows,
              signals, output>>

notifyvars == <<splitting, sending>>

mainvars == <<loopvars, scoring, notifyvars>>

vars == <<rlvars, mainvars>>

----------------------------------------------------------------------------
(* Bounds of the model *)

MaxCalls == 4

MaxBackoffCalls == 3

MaxErrors == 11

MaxSymbols == 3

\* symbols in a list of results that is ranked
MaxRanked == 25

\* bars in a window given to calculate_rs_score, and required_bars
MaxBars == 5

\* days given on the command line
MaxDays == 2

\* lines of a message given to _split_message
MaxLines == 3

----------------------------------------------------------------------------
(* Units and parameters *)

Second == 10 ^ 5

base_delay == Second \div 4

max_delay == 10 * Second

default_timeframe == "15m"

default_days == 3

DefaultMaxRequestsPerMinute == 2200

DefaultErrorBackoffMultiplier == 2

\* random.uniform(0.8, 1.2), in percent: the two ends of the range
Jitters == {80, 120}

Min(a, b) == IF a < b THEN a ELSE b

Max(a, b) == IF a > b THEN a ELSE b

RECURSIVE Pow(_, _)
Pow(b, e) == IF e = 0 THEN 1 ELSE b * Pow(b, e - 1)

----------------------------------------------------------------------------
(* Strings: str.lower() and the substring test `needle in hay` *)

UpperCase == "ABCDEFGHIJKLMNOPQRSTUVWXYZ"

LowerCase == "abcdefghijklmnopqrstuvwxyz"

UpperLetters == {SubSeq(UpperCase, k, k) : k \in 1..Len(UpperCase)}

\* the lower-case letter of every upper-case letter
LowerOf ==
    [c \in UpperLetters |->
        LET k == CHOOSE j \in 1..Len(UpperCase) : SubSeq(UpperCase, j, j) = c
        IN  SubSeq(LowerCase, k, k)]

LowerChar(c) == IF c \in UpperLetters THEN LowerOf[c] ELSE c

RECURSIVE Lower(_)
Lower(s) ==
    IF Len(s) = 0 THEN s
    ELSE LowerChar(SubSeq(s, 1, 1)) \o Lower(SubSeq(s, 2, Len(s)))

Contains(needle, hay) ==
    \E k \in 1..(Len(hay) - Len(needle) + 1) :
        SubSeq(hay, k, k + Len(needle) - 1) = needle

----------------------------------------------------------------------------
(* RateLimiter *)

WindowSpan == 60 * Second

RecentSpan == 10 * Second

\* the window with nothing ever dropped from it
Prune_keeps_all(rt, t) == rt

\* [t for t in self.request_times if current_time - t < 60]
Prune(rt, t) == SelectSeq(rt, LAMBDA x : t - x < WindowSpan)

\* a request-frequency factor with the upper threshold only
LoadFactor_one_threshold(rt, t) ==
    LET recent_requests == Cardinality({k \in DOMAIN rt : t - rt[k] < RecentSpan})
    IN  IF recent_requests > 20 THEN 15 ELSE 10

\* the request-frequency factor of calculate_dynamic_delay, in tenths
LoadFactor(rt, t) ==
    LET recent_requests == Cardinality({k \in DOMAIN rt : t - rt[k] < RecentSpan})
    IN  IF recent_requests > 20 THEN 15
        ELSE IF recent_requests > 15 THEN 12
        ELSE 10

\* the error factor of calculate_dynamic_delay
ErrorFactor(ce, mult) ==
    IF ce > 0 THEN Pow(mult, Min(ce, 5)) ELSE 1

\* the delay returned without the final min(delay, self.max_delay)
calculate_dynamic_delay_unclamped(rt, ce, mult, t, jitter) ==
    LET d1 == base_delay * ErrorFactor(ce, mult)
        d2 == (d1 * LoadFactor(rt, t)) \div 10
    IN  (d2 * jitter) \div 100

calculate_dynamic_delay(rt, ce, mult, t, jitter) ==
    LET d1 == base_delay * ErrorFactor(ce, mult)
        d2 == (d1 * LoadFactor(rt, t)) \div 10
        d3 == (d2 * jitter) \div 100
    IN  Min(d3, max_delay)

\* wait_if_needed without its per-minute check
wait_if_needed_nocap(rt, ce, cap, mult, t, jitter) ==
    LET pruned == Prune(rt, t)
        delay  == calculate_dynamic_delay(pruned, ce, mult, t, jitter)
        t3     == IF delay > 0 THEN t + delay ELSE t
    IN  [raised |-> FALSE, request_times |-> Append(pruned, t3), now |-> t3,
         capped |-> FALSE, wait_time |-> 0, delay |-> delay,
         load |-> LoadFactor(pruned, t)]

\* wait_if_needed recording the time read before the sleeps
wait_if_needed_stale(rt, ce, cap, mult, t, jitter) ==
    LET pruned == Prune(rt, t)
    IN  IF Len(pruned) >= cap /\ pruned = <<>>
        THEN [raised |-> TRUE, request_times |-> pruned, now |-> t,
              capped |-> TRUE, wait_time |-> 0, delay |-> 0, load |-> 10]
        ELSE LET capped    == Len(pruned) >= cap
                 wait_time == IF capped
                              THEN WindowSpan - (t - pruned[1]) + Second
                              ELSE 0
                 t2        == t + wait_time
                 pruned2   == IF capped THEN Prune(pruned, t2) ELSE pruned
                 delay     == calculate_dynamic_delay(pruned2, ce, mult, t2, jitter)
                 t3        == IF delay > 0 THEN t2 + delay ELSE t2
             IN  [raised |-> FALSE, request_times |-> Append(pruned2, t),
                  now |-> t3, capped |-> capped, wait_time |-> wait_time,
                  delay |-> delay, load |-> LoadFactor(pruned2, t2)]

\* The whole of wait_if_needed, from the window rt at time t: the window and
\* the clock on return, the two sleeps, and whether request_times[0] raised
\* IndexError on an empty window.
wait_if_needed(rt, ce, cap, mult, t, jitter) ==
    LET pruned == Prune(rt, t)
    IN  IF Len(pruned) >= cap /\ pruned = <<>>
        THEN [raised |-> TRUE, request_times |-> pruned, now |-> t,
              capped |-> TRUE, wait_time |-> 0, delay |-> 0, load |-> 10]
        ELSE LET capped    == Len(pruned) >= cap
                 wait_time == IF capped
                              THEN WindowSpan - (t - pruned[1]) + Second
                              ELSE 0
                 t2        == t + wait_time
                 pruned2   == IF capped THEN Prune(pruned, t2) ELSE pruned
                 delay     == calculate_dynamic_delay(pruned2, ce, mult, t2, jitter)
                 t3        == IF delay > 0 THEN t2 + delay ELSE t2
             IN  [raised |-> FALSE, request_times |-> Append(pruned2, t3),
                  now |-> t3, capped |-> capped, wait_time |-> wait_time,
                  delay |-> delay, load |-> LoadFactor(pruned2, t2)]

IsRateLimitError(error_msg) ==
    LET lowered == Lower(error_msg)
    IN  \/ Contains("Too many requests", error_msg)
        \/ Contains("rate limit", lowered)

IsAPIError(error_msg) == Contains("APIError", error_msg)

\* the rate-limit backoff without its 60-second ceiling
RateLimitBackoff_uncapped(ce) == 5 * Second * Pow(2, Min(ce - 1, 4))

RateLimitBackoff(ce) == Min(5 * Second * Pow(2, Min(ce - 1, 4)), 60 * Second)

APIErrorBackoff(ce) == Min(1 * Second * ce, 10 * Second)

\* on_error testing the API-error marker before the rate-limit phrases
on_error_api_first(ce, error_msg) ==
    LET n == ce + 1
    IN  [consecutive_errors |-> n,
         backoff_time |-> IF IsAPIError(error_msg) THEN APIErrorBackoff(n)
                          ELSE IF IsRateLimitError(error_msg) THEN RateLimitBackoff(n)
                          ELSE 0]

\* on_error backing off after every error that is not a rate limit
on_error_always_sleeps(ce, error_msg) ==
    LET n == ce + 1
    IN  [consecutive_errors |-> n,
         backoff_time |-> IF IsRateLimitError(error_msg) THEN RateLimitBackoff(n)
                          ELSE APIErrorBackoff(n)]

\* on_error: the counter after the call and the time slept
on_error(ce, error_msg) ==
    LET n == ce + 1
    IN  [consecutive_errors |-> n,
         backoff_time |-> IF IsRateLimitError(error_msg) THEN RateLimitBackoff(n)
                          ELSE IF IsAPIError(error_msg) THEN APIErrorBackoff(n)
                          ELSE 0]

\* on_success decrementing without the guard and the floor
on_success_unfloored(ce) == ce - 1

\* on_success forgetting every error at once
on_success_reset(ce) == 0

on_success(ce) == IF ce > 0 THEN Max(0, ce - 1) ELSE ce

----------------------------------------------------------------------------
(* Error messages the limiter is given *)

MsgTooMany == "APIError(code=-1003): Too many requests"

MsgHttp429 == "429 Too Many Requests"

MsgRateLimit == "Rate Limit exceeded"

MsgAPIError == "APIError(code=-1121): Invalid symbol."

MsgNoData == "Failed to get data or empty dataset"

Messages == {MsgTooMany, MsgHttp429, MsgRateLimit, MsgAPIError, MsgNoData}

----------------------------------------------------------------------------
(* The record of a RateLimiter call *)

NoCall ==
    [op |-> "none", msg |-> "", raised |-> FALSE, before |-> <<>>, n |-> 0,
     t0 |-> 0, capped |-> FALSE, wait_time |-> 0, delay |-> 0, backoff_time |-> 0,
     after |-> "none"]

\* __main__ before anything ran
NoFetch == [kind |-> "none", msg |-> "", bars |-> 0, rs_score |-> 0]

NoResult == [crypto |-> "", status |-> "none", reason |-> "", rs_score |-> 0]

NoRanking == [targets |-> <<>>, target_score |-> <<>>, failed_targets |-> <<>>]

\* nothing printed, written or sent yet
NoOutput ==
    [console |-> <<>>, txt_content |-> "", formatted |-> FALSE, message |-> <<>>,
     processed |-> 0, failed |-> 0, succeeded |-> 0]

\* a score, kept as the fraction num / den in lowest terms
Zero == [num |-> 0, den |-> 1]

\* calculate_rs_score has not returned
NoReturn ==
    [success |-> FALSE, rs_score |-> Zero, error |-> "", crypto_data |-> <<>>,
     reads |-> 0]

\* calculate_rs_score not called
NoScoring ==
    [phase |-> "idle", crypto_data |-> <<>>, required_bars |-> 0,
     returned |-> NoReturn, variant |-> "none", other_data |-> <<>>,
     other_returned |-> NoReturn]

\* _split_message not called
NoSplitting == [phase |-> "idle", message |-> "", max_length |-> 0, chunks |-> <<>>]

\* send_similarity_results_to_discord not called
NoSending ==
    [phase |-> "idle", enabled |-> FALSE, webhook_url |-> "", items0 |-> {},
     items |-> {}, log |-> <<>>, summary_sent |-> FALSE, matches_sent |-> FALSE,
     file_sent |-> FALSE, cleanup_called |-> FALSE, cleanup_success |-> FALSE,
     returned |-> "none"]

LoopIdle ==
    /\ all_cryptos = <<>>
    /\ pc = "idle"
    /\ idx = 1
    /\ fetched = NoFetch
    /\ result = NoResult
    /\ results = <<>>
    /\ interrupted = "no"
    /\ ranked = NoRanking
    /\ started = 0
    /\ outcomes = <<>>
    /\ requests = <<>>
    /\ timeframe = default_timeframe
    /\ days = default_days
    /\ windows = <<>>
    /\ signals = <<>>
    /\ output = NoOutput

MainIdle ==
    /\ LoopIdle
    /\ scoring = NoScoring
    /\ splitting = NoSplitting
    /\ sending = NoSending

\* rate_limiter.wait_if_needed() with the jitter drawn
CallWait(jitter) ==
    LET r == wait_if_needed(request_times, consecutive_errors,
                            max_requests_per_minute, error_backoff_multiplier,
                            now, jitter)
    IN  /\ request_times' = r.request_times
        /\ now' = r.now
        /\ admitted' = IF r.raised THEN admitted ELSE Append(admitted, r.now)
        /\ delays' = IF r.raised THEN delays
                     ELSE Append(delays, [n |-> consecutive_errors, load |-> r.load,
                                          jitter |-> jitter, delay |-> r.delay])
        /\ last' = [NoCall EXCEPT !.op = "wait_if_needed", !.raised = r.raised,
                                  !.before = request_times, !.n = consecutive_errors,
                                  !.t0 = now, !.capped = r.capped, !.wait_time = r.wait_time,
                                  !.delay = r.delay, !.after = last.op]
        /\ UNCHANGED <<consecutive_errors, max_requests_per_minute,
                       error_backoff_multiplier>>

\* rate_limiter.on_error(error_msg)
CallError(error_msg) ==
    LET r == on_error(consecutive_errors, error_msg)
    IN  /\ consecutive_errors' = r.consecutive_errors
        /\ now' = now + r.backoff_time
        /\ last' = [NoCall EXCEPT !.op = "on_error", !.msg = error_msg,
                                  !.before = request_times, !.t0 = now,
                                  !.n = r.consecutive_errors,
                                  !.backoff_time = r.backoff_time,
                                  !.after = last.op]
        /\ UNCHANGED <<request_times, max_requests_per_minute,
                       error_backoff_multiplier, admitted, delays>>

\* rate_limiter.on_success()
CallSuccess ==
    /\ consecutive_errors' = on_success(consecutive_errors)
    /\ delays' = <<>>
    /\ last' = [NoCall EXCEPT !.op = "on_success", !.before = request_times,
                              !.t0 = now, !.n = consecutive_errors,
                              !.after = last.op]
    /\ UNCHANGED <<now, request_times, max_requests_per_minute,
                   error_backoff_multiplier, admitted>>

----------------------------------------------------------------------------
(* SpecLimiter: a RateLimiter, as constructed, under any interleaving of   *)
(* its three methods, with time passing between the calls.                 *)

\* max_requests_per_minute as configured: small caps, and the degenerate 0
Caps == {0, 1, 2}

\* time that passes between two calls
Pauses == {30 * Second}

\* the messages the harness draws from
LimiterMessages == {MsgRateLimit, MsgNoData}

InitLimiter ==
    /\ now = 0
    /\ request_times = <<>>
    /\ consecutive_errors = 0
    /\ max_requests_per_minute \in Caps
    /\ error_backoff_multiplier = DefaultErrorBackoffMultiplier
    /\ calls = 0
    /\ last = NoCall
    /\ admitted = <<>>
    /\ delays = <<>>
    /\ MainIdle

LimiterWait ==
    /\ calls < MaxCalls
    /\ calls' = calls + 1
    /\ \E jitter \in Jitters : CallWait(jitter)
    /\ UNCHANGED mainvars

LimiterError ==
    /\ calls < MaxCalls
    /\ calls' = calls + 1
    /\ \E error_msg \in LimiterMessages : CallError(error_msg)
    /\ UNCHANGED mainvars

LimiterSuccess ==
    /\ calls < MaxCalls
    /\ calls' = calls + 1
    /\ CallSuccess
    /\ UNCHANGED mainvars

LimiterPause ==
    /\ calls < MaxCalls
    /\ calls' = calls + 1
    /\ \E d \in Pauses : now' = now + d
    /\ last' = [NoCall EXCEPT !.op = "pause", !.before = request_times,
                              !.t0 = now, !.n = consecutive_errors,
                              !.after = last.op]
    /\ UNCHANGED <<request_times, consecutive_errors, max_requests_per_minute,
                   error_backoff_multiplier, admitted, delays>>
    /\ UNCHANGED mainvars

NextLimiter == LimiterWait \/ LimiterError \/ LimiterSuccess \/ LimiterPause

SpecLimiter == InitLimiter /\ [][NextLimiter]_vars

----------------------------------------------------------------------------
(* SpecBackoff: on_error, on_success and the dynamic delay as functions of *)
(* the limiter's state: the state is drawn, then the methods are applied.  *)

\* the shortest gap the default parameters allow between two requests under
\* the highest load: 0.25 * 1.5 * 0.8
BurstGap == (3 * Second) \div 10

\* k requests admitted BurstGap apart
Burst(k) == [j \in 1..k |-> j * BurstGap]

\* bursts below, between and above the two load thresholds (15 and 20)
BurstSizes == {0, 16, 21}

InitBackoff ==
    /\ consecutive_errors \in 0..MaxErrors
    /\ \E k \in BurstSizes :
          /\ request_times = Burst(k)
          /\ now = k * BurstGap
    /\ admitted = request_times
    /\ max_requests_per_minute = DefaultMaxRequestsPerMinute
    /\ error_backoff_multiplier = DefaultErrorBackoffMultiplier
    /\ calls = 0
    /\ last = NoCall
    /\ delays = <<>>
    /\ MainIdle

BackoffWait ==
    /\ calls < MaxBackoffCalls
    /\ calls' = calls + 1
    /\ \E jitter \in Jitters : CallWait(jitter)
    /\ UNCHANGED mainvars

BackoffError ==
    /\ calls < MaxBackoffCalls
    /\ calls' = calls + 1
    /\ \E error_msg \in Messages : CallError(error_msg)
    /\ UNCHANGED mainvars

BackoffSuccess ==
    /\ calls < MaxBackoffCalls
    /\ calls' = calls + 1
    /\ CallSuccess
    /\ UNCHANGED mainvars

NextBackoff == BackoffWait \/ BackoffError \/ BackoffSuccess

SpecBackoff == InitBackoff /\ [][NextBackoff]_vars

----------------------------------------------------------------------------
(* SpecWaits: the sleeps of wait_if_needed and on_error, for a limiter     *)
(* with a small cap and an error counter that is low, at the end of the    *)
(* error factor's growth, or high.                                         *)

WaitsCaps == {1, 2}

WaitsErrors == {0, 5, MaxErrors}

InitWaits ==
    /\ now = 0
    /\ request_times = <<>>
    /\ consecutive_errors \in WaitsErrors
    /\ max_requests_per_minute \in WaitsCaps
    /\ error_backoff_multiplier = DefaultErrorBackoffMultiplier
    /\ calls = 0
    /\ last = NoCall
    /\ admitted = <<>>
    /\ delays = <<>>
    /\ MainIdle

WaitsWait ==
    /\ calls < MaxBackoffCalls
    /\ calls' = calls + 1
    /\ \E jitter \in Jitters : CallWait(jitter)
    /\ UNCHANGED mainvars

WaitsError ==
    /\ calls < MaxBackoffCalls
    /\ calls' = calls + 1
    /\ \E error_msg \in Messages : CallError(error_msg)
    /\ UNCHANGED mainvars

NextWaits == WaitsWait \/ WaitsError

SpecWaits == InitWaits /\ [][NextWaits]_vars

----------------------------------------------------------------------------
(* Spec: __main__ of crypto_screener.py, the symbol loop over process_crypto *)
(* and the processing of the results.                                        *)

Universe == <<"BTCUSDT", "ETHUSDT", "SOLUSDT", "XRPUSDT", "BNBUSDC", "ADAUSDT">>

\* None as bars_dict.get returns it, told from every number of bars, which is
\* never negative
None == 0 - 1

\* calc_total_bars with a "1d" entry in bars_dict
calc_total_bars_with_1d(time_interval, n_days) ==
    CASE time_interval = "5m"  -> 12 * 24 * n_days
      [] time_interval = "15m" -> 4 * 24 * n_days
      [] time_interval = "30m" -> 2 * 24 * n_days
      [] time_interval = "1h"  -> 24 * n_days
      [] time_interval = "2h"  -> 12 * n_days
      [] time_interval = "4h"  -> 6 * n_days
      [] time_interval = "8h"  -> 3 * n_days
      [] time_interval = "1d"  -> n_days
      [] OTHER -> None

\* bars_dict.get(time_interval): None for a code that is not a key
calc_total_bars(time_interval, n_days) ==
    CASE time_interval = "5m"  -> 12 * 24 * n_days
      [] time_interval = "15m" -> 4 * 24 * n_days
      [] time_interval = "30m" -> 2 * 24 * n_days
      [] time_interval = "1h"  -> 24 * n_days
      [] time_interval = "2h"  -> 12 * n_days
      [] time_interval = "4h"  -> 6 * n_days
      [] time_interval = "8h"  -> 3 * n_days
      [] OTHER -> None

\* required_bars = calc_total_bars(timeframe, days)
required_bars == calc_total_bars(timeframe, days)

\* str.replace(c, ""): the string without its occurrences of the character c
RECURSIVE Remove(_, _)
Remove(text, c) ==
    IF text = "" THEN ""
    ELSE LET head == SubSeq(text, 1, 1)
             rest == Remove(SubSeq(text, 2, Len(text)), c)
         IN  IF head = c THEN rest ELSE head \o rest

Digits == <<"0", "1", "2", "3", "4", "5", "6", "7", "8", "9">>

IsDigit(c) == \E k \in DOMAIN Digits : Digits[k] = c

DigitValue(c) == (CHOOSE k \in DOMAIN Digits : Digits[k] = c) - 1

RECURSIVE DecimalValue(_)
DecimalValue(text) ==
    IF text = "" THEN 0
    ELSE 10 * DecimalValue(SubSeq(text, 1, Len(text) - 1))
         + DigitValue(SubSeq(text, Len(text), Len(text)))

MsgInvalidLiteral(text) == "invalid literal for int() with base 10: '" \o text \o "'"

\* int(text) for a string of letters and digits: the number written in decimal
\* digits, ValueError for the empty string and for any other character
ParseInt(text) ==
    IF text # "" /\ \A k \in 1..Len(text) : IsDigit(SubSeq(text, k, k))
    THEN [raised |-> FALSE, msg |-> "", value |-> DecimalValue(text)]
    ELSE [raised |-> TRUE, msg |-> MsgInvalidLiteral(text), value |-> 0]

\* process_crypto: the seconds of one bar, estimated from the timeframe code
interval_seconds(tf) ==
    IF Contains("m", tf)
    THEN LET minutes == ParseInt(Remove(tf, "m"))
         IN  [minutes EXCEPT !.value = minutes.value * 60]
    ELSE IF Contains("h", tf)
    THEN LET hours == ParseInt(Remove(tf, "h"))
         IN  [hours EXCEPT !.value = hours.value * 3600]
    ELSE IF Contains("d", tf)
    THEN LET n == ParseInt(Remove(tf, "d"))
         IN  [n EXCEPT !.value = n.value * 24 * 3600]
    ELSE [raised |-> FALSE, msg |-> "", value |-> 3600]

MsgNoneTimesInt == "unsupported operand type(s) for *: 'NoneType' and 'int'"

NoWindow == [raised |-> FALSE, msg |-> "", start_ts |-> 0, end_ts |-> 0]

\* process_crypto computing the window without the buffer factor
fetch_window_unbuffered(tf, n_days, t) ==
    LET bars    == calc_total_bars(tf, n_days)
        end_ts  == t \div Second
        seconds == interval_seconds(tf)
    IN  IF seconds.raised
        THEN [NoWindow EXCEPT !.raised = TRUE, !.msg = seconds.msg]
        ELSE IF bars = None
        THEN [NoWindow EXCEPT !.raised = TRUE, !.msg = MsgNoneTimesInt]
        ELSE [NoWindow EXCEPT !.start_ts = end_ts - bars * seconds.value,
                              !.end_ts = end_ts]

\* process_crypto between wait_if_needed and cd.get_data, at time t: the
\* exception raised, or start_ts and end_ts.  required_bars * interval_seconds
\* is a whole number of days, a multiple of 5, so that its product with 1.2 is
\* a whole number and int() returns it
fetch_window(tf, n_days, t) ==
    LET bars    == calc_total_bars(tf, n_days)
        end_ts  == t \div Second
        seconds == interval_seconds(tf)
    IN  IF seconds.raised
        THEN [NoWindow EXCEPT !.raised = TRUE, !.msg = seconds.msg]
        ELSE IF bars = None
        THEN [NoWindow EXCEPT !.raised = TRUE, !.msg = MsgNoneTimesInt]
        ELSE [NoWindow EXCEPT !.start_ts = end_ts - (bars * seconds.value * 12) \div 10,
                              !.end_ts = end_ts]

\* the values calculate_rs_score gives for the windows fetched: two symbols
\* may score the same
Scores == {1, 2}

\* a window one bar too short for required_bars
ShortBars == required_bars - 1

\* the time cd.get_data takes
FetchTime == Second

\* what cd.get_data does: it raises, it reports failure, it returns an empty
\* frame, or it returns a window of bars (whose score is rs_score)
FetchOutcomes ==
    {[NoFetch EXCEPT !.kind = "raise", !.msg = m] : m \in {MsgTooMany, MsgAPIError}}
    \cup {[NoFetch EXCEPT !.kind = "failed"], [NoFetch EXCEPT !.kind = "empty"]}
    \cup {[NoFetch EXCEPT !.kind = "data", !.bars = ShortBars]}
    \cup {[NoFetch EXCEPT !.kind = "data", !.bars = required_bars, !.rs_score = v] :
            v \in Scores}

MsgIndexError == "list index out of range"

InsufficientData(n, required) ==
    "Insufficient data: " \o ToString(n) \o " < " \o ToString(required)

\* calculate_rs_score as the loop sees it, for a window known by its length
\* and its score: too few bars, or the window's score
score_window(f, required) ==
    IF f.bars < required
    THEN [success |-> FALSE, rs_score |-> 0, error |-> InsufficientData(f.bars, required)]
    ELSE [success |-> TRUE, rs_score |-> f.rs_score, error |-> ""]

Failed(symbol, reason) ==
    [crypto |-> symbol, status |-> "failed", reason |-> reason, rs_score |-> 0]

Succeeded(symbol, rs_score) ==
    [crypto |-> symbol, status |-> "success", reason |-> "", rs_score |-> rs_score]

\* process_crypto reporting every failure with the one fixed reason
process_crypto_result_fixed_reason(symbol, f) ==
    IF f.kind \in {"raise", "failed", "empty"}
    THEN [signal |-> "on_error", msg |-> MsgNoData, scored |-> FALSE,
          result |-> Failed(symbol, MsgNoData)]
    ELSE LET sc == score_window(f, required_bars)
         IN  IF ~sc.success
             THEN [signal |-> "on_error", msg |-> sc.error, scored |-> TRUE,
                   result |-> Failed(symbol, sc.error)]
             ELSE [signal |-> "on_success", msg |-> "", scored |-> TRUE,
                   result |-> Succeeded(symbol, sc.rs_score)]

\* process_crypto testing only the success flag of the fetch, not data.empty
process_crypto_result_unchecked_empty(symbol, f) ==
    IF f.kind = "raise"
    THEN [signal |-> "on_error", msg |-> f.msg, scored |-> FALSE,
          result |-> Failed(symbol, f.msg)]
    ELSE IF f.kind = "failed"
    THEN [signal |-> "on_error", msg |-> MsgNoData, scored |-> FALSE,
          result |-> Failed(symbol, MsgNoData)]
    ELSE LET sc == score_window(f, required_bars)
         IN  IF ~sc.success
             THEN [signal |-> "on_error", msg |-> sc.error, scored |-> TRUE,
                   result |-> Failed(symbol, sc.error)]
             ELSE [signal |-> "on_success", msg |-> "", scored |-> TRUE,
                   result |-> Succeeded(symbol, sc.rs_score)]

\* process_crypto once the fetch has returned or raised: the call it makes on
\* the limiter, the value it returns, and whether calculate_rs_score was called
process_crypto_result(symbol, f) ==
    IF f.kind = "raise"
    THEN [signal |-> "on_error", msg |-> f.msg, scored |-> FALSE,
          result |-> Failed(symbol, f.msg)]
    ELSE IF f.kind \in {"failed", "empty"}
    THEN [signal |-> "on_error", msg |-> MsgNoData, scored |-> FALSE,
          result |-> Failed(symbol, MsgNoData)]
    ELSE LET sc == score_window(f, required_bars)
         IN  IF ~sc.success
             THEN [signal |-> "on_error", msg |-> sc.error, scored |-> TRUE,
                   result |-> Failed(symbol, sc.error)]
             ELSE [signal |-> "on_success", msg |-> "", scored |-> TRUE,
                   result |-> Succeeded(symbol, sc.rs_score)]

\* target_score[key] = value on a dict kept as a sequence of pairs
DictSet(d, key, value) ==
    IF \E k \in DOMAIN d : d[k][1] = key
    THEN [k \in DOMAIN d |-> IF d[k][1] = key THEN <<key, value>> ELSE d[k]]
    ELSE Append(d, <<key, value>>)

DictGet(d, key) == d[CHOOSE k \in DOMAIN d : d[k][1] = key][2]

RECURSIVE CollectScores(_)
CollectScores(rs) ==
    IF rs = <<>> THEN <<>>
    ELSE LET r    == rs[Len(rs)]
             rest == CollectScores(SubSeq(rs, 1, Len(rs) - 1))
         IN  IF r.status = "success" THEN DictSet(rest, r.crypto, r.rs_score) ELSE rest

CollectFailed(rs) ==
    LET failures == SelectSeq(rs, LAMBDA r : r.status # "success")
    IN  [k \in DOMAIN failures |-> <<failures[k].crypto, failures[k].reason>>]

\* a descending sort that puts a key before the equal keys that came earlier
RECURSIVE SortByScore_ties_reversed(_, _)
SortByScore_ties_reversed(keys, d) ==
    IF keys = <<>> THEN <<>>
    ELSE LET x      == keys[Len(keys)]
             sorted == SortByScore_ties_reversed(SubSeq(keys, 1, Len(keys) - 1), d)
             ahead  == SelectSeq(sorted, LAMBDA y : DictGet(d, y) > DictGet(d, x))
             behind == SelectSeq(sorted, LAMBDA y : DictGet(d, y) <= DictGet(d, x))
         IN  ahead \o <<x>> \o behind

\* list.sort(key=..., reverse=True): descending, equal keys keep their order
RECURSIVE SortByScore(_, _)
SortByScore(keys, d) ==
    IF keys = <<>> THEN <<>>
    ELSE LET x      == keys[Len(keys)]
             sorted == SortByScore(SubSeq(keys, 1, Len(keys) - 1), d)
             ahead  == SelectSeq(sorted, LAMBDA y : DictGet(d, y) >= DictGet(d, x))
             behind == SelectSeq(sorted, LAMBDA y : DictGet(d, y) < DictGet(d, x))
         IN  ahead \o <<x>> \o behind

\* the processing of the results after the loop
ProcessResults(rs) ==
    LET target_score == CollectScores(rs)
        keys         == [k \in DOMAIN target_score |-> target_score[k][1]]
    IN  [targets |-> SortByScore(keys, target_score),
         target_score |-> target_score,
         failed_targets |-> CollectFailed(rs)]

\* max_targets=20, and the literal 20 of targets[:20]
max_targets == 20

\* crypto.endswith(suffix)
EndsWith(crypto, suffix) ==
    /\ Len(crypto) >= Len(suffix)
    /\ SubSeq(crypto, Len(crypto) - Len(suffix) + 1, Len(crypto)) = suffix

\* the symbol without a trailing USDT; other suffixes are kept
DisplaySymbol(crypto) ==
    IF EndsWith(crypto, "USDT") THEN SubSeq(crypto, 1, Len(crypto) - 4) ELSE crypto

\* f"{score:.6f}" of a score that is a whole number
Format6(score) == ToString(score) \o ".000000"

\* f"{idx}. {display_symbol}: {score:.6f}"
EntryLine(k, crypto, score) ==
    ToString(k) \o ". " \o DisplaySymbol(crypto) \o ": " \o Format6(score)

\* sep.join(parts)
RECURSIVE Join(_, _)
Join(sep, parts) ==
    IF parts = <<>> THEN ""
    ELSE IF Len(parts) = 1 THEN parts[1]
    ELSE Join(sep, SubSeq(parts, 1, Len(parts) - 1)) \o sep \o parts[Len(parts)]

\* the whole list where only its head was meant
TopSlice_unsliced(targets, n) == targets

\* targets[:n]
TopSlice(targets, n) == SubSeq(targets, 1, Min(n, Len(targets)))

\* the lines print writes between the two rules of the console table
ConsoleEntries(targets, target_score) ==
    LET top == TopSlice(targets, 20)
    IN  [k \in DOMAIN top |-> EntryLine(k, top[k], DictGet(target_score, top[k]))]

TxtHeader == "###Targets (Sort by score)\n"

\* the content of the strong-targets file
TxtContent(targets) ==
    IF targets # <<>>
    THEN LET top_20_targets == TopSlice(targets, 20)
         IN  TxtHeader \o Join(",", [k \in DOMAIN top_20_targets |->
                                        "BINANCE:" \o top_20_targets[k] \o ".P"])
    ELSE TxtHeader

\* CryptoMessageFormatter.format_crypto_results: the message, as the sequence
\* of its lines, without the emoji of the literals
\* a is <<targets, target_scores, timeframe, days, total_processed,
\* failed_count, timestamp, max_targets>>
format_crypto_results(a) ==
    LET targets         == a[1]
        target_scores   == a[2]
        display_targets == TopSlice(targets, a[8])
    IN  << "**Crypto Screener Results (" \o a[3] \o ", " \o ToString(a[4])
              \o " days)**",
           "**TOP " \o ToString(a[8]) \o " Strong Targets (" \o a[7] \o ")**",
           "" >>
        \o [k \in DOMAIN display_targets |->
              EntryLine(k, display_targets[k], DictGet(target_scores, display_targets[k]))]
        \o << "",
              "Total processed: " \o ToString(a[5]),
              "Successfully calculated: " \o ToString(Len(targets)),
              "Failed: " \o ToString(a[6]) >>

\* datetime.now().strftime("%Y-%m-%d_%H-%M")
full_date_str == "2024-01-01_00-00"

Init ==
    /\ now = 0
    /\ request_times = <<>>
    /\ consecutive_errors = 0
    \* a configured cap small enough for the loop to meet it
    /\ max_requests_per_minute = 2
    /\ error_backoff_multiplier = DefaultErrorBackoffMultiplier
    /\ calls = 0
    /\ last = NoCall
    /\ admitted = <<>>
    /\ delays = <<>>
    /\ \E n \in 0..MaxSymbols : all_cryptos = SubSeq(Universe, 1, n)
    /\ pc = "loop"
    /\ idx = 1
    /\ fetched = NoFetch
    /\ result = NoResult
    /\ results = <<>>
    /\ interrupted = "no"
    /\ ranked = NoRanking
    /\ started = 0
    /\ outcomes = <<>>
    /\ requests = <<>>
    /\ timeframe = default_timeframe
    /\ days = default_days
    /\ windows = <<>>
    /\ signals = <<>>
    /\ output = NoOutput
    /\ scoring = NoScoring
    /\ splitting = NoSplitting
    /\ sending = NoSending

\* for i, crypto in enumerate(all_cryptos, 1): print(...)
LoopHead ==
    /\ pc = "loop"
    /\ IF idx <= Len(all_cryptos)
       THEN /\ pc' = "wait"
            /\ started' = idx
       ELSE /\ pc' = "rank"
            /\ UNCHANGED started
    /\ UNCHANGED <<rlvars, all_cryptos, idx, fetched, result, results, interrupted,
                   ranked, outcomes, requests, timeframe, days, windows, signals,
                   output, scoring, notifyvars>>

\* process_crypto fetching without asking the limiter
Admit_unthrottled ==
    /\ pc = "wait"
    /\ fetched' = NoFetch
    /\ pc' = "fetch"
    /\ UNCHANGED <<rlvars, all_cryptos, idx, result, results, interrupted, ranked,
                   started, outcomes, requests, timeframe, days, windows, signals,
                   output, scoring, notifyvars>>

\* process_crypto: rate_limiter.wait_if_needed()
Admit ==
    /\ pc = "wait"
    /\ \E jitter \in Jitters : CallWait(jitter)
    /\ IF last'.raised
       THEN /\ fetched' = [NoFetch EXCEPT !.kind = "raise", !.msg = MsgIndexError]
            /\ pc' = "feedback"
       ELSE LET w == fetch_window(timeframe, days, now')
            IN  IF w.raised
                THEN /\ fetched' = [NoFetch EXCEPT !.kind = "raise", !.msg = w.msg]
                     /\ pc' = "feedback"
                ELSE /\ fetched' = NoFetch
                     /\ pc' = "fetch"
    /\ UNCHANGED <<calls, all_cryptos, idx, result, results, interrupted, ranked,
                   started, outcomes, requests, timeframe, days, windows, signals,
                   output, scoring, notifyvars>>

\* process_crypto: cd.get_data(...)
Fetch ==
    /\ pc = "fetch"
    /\ \E f \in FetchOutcomes :
          /\ fetched' = f
          /\ outcomes' = Append(outcomes, f)
    /\ requests' = Append(requests, idx)
    /\ LET w == fetch_window(timeframe, days, now)
       IN  windows' = Append(windows, [symbol |-> all_cryptos[idx], start_ts |-> w.start_ts,
                                       end_ts |-> w.end_ts, timeframe |-> timeframe,
                                       at |-> now])
    /\ now' = now + FetchTime
    /\ pc' = "feedback"
    /\ UNCHANGED <<request_times, consecutive_errors, max_requests_per_minute,
                   error_backoff_multiplier, calls, last, admitted, delays,
                   all_cryptos, idx, result, results, interrupted, ranked,
                   started, signals, timeframe, days,
                   output, scoring, notifyvars>>

\* process_crypto returning a success without telling the limiter
Feedback_silent_success ==
    /\ pc = "feedback"
    /\ LET r == process_crypto_result(all_cryptos[idx], fetched)
       IN  /\ IF r.signal = "on_error"
              THEN /\ CallError(r.msg)
                   /\ signals' = Append(signals, [at |-> idx, op |-> r.signal,
                                                  msg |-> r.msg, scored |-> r.scored,
                                                  t |-> now'])
              ELSE UNCHANGED <<rlvars, signals>>
           /\ result' = r.result
    /\ pc' = "append"
    /\ UNCHANGED <<calls, all_cryptos, idx, fetched, results, interrupted, ranked,
                   started, outcomes, requests, timeframe, days, windows,
                   output, scoring, notifyvars>>

\* a failure reported to the limiter by process_crypto and once more by the
\* loop around it
Feedback_error_twice ==
    /\ pc = "feedback"
    /\ LET r == process_crypto_result(all_cryptos[idx], fetched)
           s == [at |-> idx, op |-> r.signal, msg |-> r.msg, scored |-> r.scored,
                 t |-> now']
       IN  /\ IF r.signal = "on_error" THEN CallError(r.msg) ELSE CallSuccess
           /\ signals' = IF r.signal = "on_error" THEN signals \o <<s, s>>
                          ELSE Append(signals, s)
           /\ result' = r.result
    /\ pc' = "append"
    /\ UNCHANGED <<calls, all_cryptos, idx, fetched, results, interrupted, ranked,
                   started, outcomes, requests, timeframe, days, windows,
                   output, scoring, notifyvars>>

\* process_crypto: the result is settled, the limiter is told, the value returned
Feedback ==
    /\ pc = "feedback"
    /\ LET r == process_crypto_result(all_cryptos[idx], fetched)
       IN  /\ IF r.signal = "on_error" THEN CallError(r.msg) ELSE CallSuccess
           /\ signals' = Append(signals, [at |-> idx, op |-> r.signal, msg |-> r.msg,
                                          scored |-> r.scored, t |-> now'])
           /\ result' = r.result
    /\ pc' = "append"
    /\ UNCHANGED <<calls, all_cryptos, idx, fetched, results, interrupted, ranked,
                   started, outcomes, requests, timeframe, days, windows,
                   output, scoring, notifyvars>>

\* results.append(result)
AppendResult ==
    /\ pc = "append"
    /\ results' = Append(results, result)
    /\ result' = NoResult
    /\ idx' = idx + 1
    /\ pc' = "loop"
    /\ UNCHANGED <<rlvars, all_cryptos, fetched, interrupted, ranked, started,
                   outcomes, requests, timeframe, days, windows, signals,
                   output, scoring, notifyvars>>

\* KeyboardInterrupt, raised wherever the program stands: inside the try of the
\* loop body it is caught and the loop is left; at the loop's own line and its
\* print, outside the try, nothing catches it
Interrupt ==
    /\ interrupted = "no"
    /\ \/ /\ pc \in {"wait", "fetch", "feedback", "append"}
          /\ pc' = "rank"
       \/ /\ pc = "loop"
          /\ idx <= Len(all_cryptos)
          /\ pc' = "aborted"
    /\ interrupted' = pc
    /\ UNCHANGED <<rlvars, all_cryptos, idx, fetched, result, results, ranked,
                   started, outcomes, requests, timeframe, days, windows, signals,
                   output, scoring, notifyvars>>

\* the results are split and the targets sorted
Rank ==
    /\ pc = "rank"
    /\ ranked' = ProcessResults(results)
    /\ pc' = "output"
    /\ UNCHANGED <<rlvars, all_cryptos, idx, fetched, result, results, interrupted,
                   started, outcomes, requests, timeframe, days, windows, signals,
                   output, scoring, notifyvars>>

\* the table is printed, the file written and, if there are targets and the
\* notifier is enabled, the message formatted and sent
Output ==
    /\ pc = "output"
    /\ \E enabled \in BOOLEAN :
          LET formatted == ranked.targets # <<>> /\ enabled
          IN  output' =
                [console |-> ConsoleEntries(ranked.targets, ranked.target_score),
                 txt_content |-> TxtContent(ranked.targets),
                 formatted |-> formatted,
                 message |->
                    IF formatted
                    THEN format_crypto_results(<<ranked.targets, ranked.target_score,
                                                 timeframe, days,
                                                 Len(all_cryptos),
                                                 Len(ranked.failed_targets),
                                                 full_date_str, max_targets>>)
                    ELSE <<>>,
                 \* Total cryptos processed, Failed cryptos, Successfully calculated
                 processed |-> Len(all_cryptos),
                 failed |-> Len(ranked.failed_targets),
                 succeeded |-> Len(ranked.targets)]
    /\ pc' = "done"
    /\ UNCHANGED <<rlvars, all_cryptos, idx, fetched, result, results, interrupted,
                   ranked, started, outcomes, requests, timeframe, days, windows,
                   signals, scoring, notifyvars>>

Next ==
    \/ LoopHead \/ Admit \/ Fetch \/ Feedback \/ AppendResult \/ Interrupt
    \/ Rank \/ Output

Spec == Init /\ [][Next]_vars

----------------------------------------------------------------------------
(* SpecTimeframe: __main__ run with the timeframe and the days of the       *)
(* command line: the codes of bars_dict and codes that are not its keys.    *)

KnownTimeframes == {"5m", "15m", "30m", "1h", "2h", "4h", "8h"}

\* "1d" is listed by the help of --timeframe; argparse takes any string
UnknownTimeframes == {"1d", "1w", "10m", "xm"}

\* the symbols of the run
TimeframeSymbols == SubSeq(Universe, 1, 2)

InitTimeframe ==
    /\ now = 0
    /\ request_times = <<>>
    /\ consecutive_errors = 0
    /\ max_requests_per_minute = DefaultMaxRequestsPerMinute
    /\ error_backoff_multiplier = DefaultErrorBackoffMultiplier
    /\ calls = 0
    /\ last = NoCall
    /\ admitted = <<>>
    /\ delays = <<>>
    /\ all_cryptos = TimeframeSymbols
    /\ pc = "loop"
    /\ idx = 1
    /\ fetched = NoFetch
    /\ result = NoResult
    /\ results = <<>>
    /\ interrupted = "no"
    /\ ranked = NoRanking
    /\ started = 0
    /\ outcomes = <<>>
    /\ requests = <<>>
    /\ timeframe \in KnownTimeframes \cup UnknownTimeframes
    /\ days \in 1..MaxDays
    /\ windows = <<>>
    /\ signals = <<>>
    /\ output = NoOutput
    /\ scoring = NoScoring
    /\ splitting = NoSplitting
    /\ sending = NoSending

SpecTimeframe == InitTimeframe /\ [][Next]_vars

----------------------------------------------------------------------------
(* SpecRank: the processing of the results and the output, applied to a    *)
(* list of results as the loop leaves it, long enough to be truncated.     *)

\* the k-th symbol of a long symbol list
SymbolName(k) ==
    IF k <= Len(Universe) THEN Universe[k] ELSE "ALT" \o ToString(k) \o "USDT"

\* how the scores lie along the list: rising, falling, all equal, equal in pairs
ScorePatterns == {"rising", "falling", "flat", "paired"}

DrawnScore(pattern, k) ==
    CASE pattern = "rising"  -> k
      [] pattern = "falling" -> 0 - k
      [] pattern = "flat"    -> 1
      [] pattern = "paired"  -> (k + 1) \div 2

\* every symbol succeeds (0), or every second or third one fails
FailureStrides == {0, 2, 3}

DrawnResult(pattern, stride, k) ==
    IF stride > 0 /\ k % stride = 0
    THEN Failed(SymbolName(k), MsgNoData)
    ELSE Succeeded(SymbolName(k), DrawnScore(pattern, k))

InitRank ==
    /\ now = 0
    /\ request_times = <<>>
    /\ consecutive_errors = 0
    /\ max_requests_per_minute = DefaultMaxRequestsPerMinute
    /\ error_backoff_multiplier = DefaultErrorBackoffMultiplier
    /\ calls = 0
    /\ last = NoCall
    /\ admitted = <<>>
    /\ delays = <<>>
    /\ \E n \in 0..MaxRanked, pattern \in ScorePatterns, stride \in FailureStrides :
          /\ all_cryptos = [k \in 1..n |-> SymbolName(k)]
          /\ results = [k \in 1..n |-> DrawnResult(pattern, stride, k)]
          /\ idx = n + 1
          /\ started = n
    /\ pc = "rank"
    /\ fetched = NoFetch
    /\ result = NoResult
    /\ interrupted = "no"
    /\ ranked = NoRanking
    /\ outcomes = <<>>
    /\ requests = <<>>
    /\ timeframe = default_timeframe
    /\ days = default_days
    /\ windows = <<>>
    /\ signals = <<>>
    /\ output = NoOutput
    /\ scoring = NoScoring
    /\ splitting = NoSplitting
    /\ sending = NoSending

NextRank == Rank \/ Output

SpecRank == InitRank /\ [][NextRank]_vars

----------------------------------------------------------------------------
(* calculate_rs_score. Prices, averages and ATR are whole numbers of a     *)
(* price unit and the score is an exact fraction.                          *)

Abs(a) == IF a < 0 THEN 0 - a ELSE a

RECURSIVE GCD(_, _)
GCD(a, b) == IF b = 0 THEN a ELSE GCD(b, a % b)

\* the fraction n / d, d # 0, in lowest terms with a positive denominator
Rat(n, d) ==
    LET g == GCD(Abs(n), Abs(d))
        sign == IF d < 0 THEN 0 - 1 ELSE 1
    IN  [num |-> sign * (n \div g), den |-> sign * (d \div g)]

RatAdd(x, y) == Rat(x.num * y.den + y.num * x.den, x.den * y.den)

RatLess(x, y) == x.num * y.den < y.num * x.den

\* the places kept of a weight: weights are multiples of 1 / WeightScale
WeightScale == 2 ^ 3

\* weight = i, the linear weight the source keeps in a comment
Weight_linear(i, required) == i

\* k = 2 * np.log(2) / required_bars; weight = np.exp(k * i), which is
\* 4 ^ (i / required_bars), here in units of 1 / WeightScale, rounded down
Weight(i, required) ==
    CHOOSE w \in WeightScale..(4 * WeightScale) :
        /\ Pow(w, required) <= Pow(WeightScale, required) * Pow(4, i)
        /\ Pow(w + 1, required) > Pow(WeightScale, required) * Pow(4, i)

\* the sum of the six differences with the last one added, not subtracted
Numerator_sign_slip(bar) ==
    (bar.close - bar.sma_30) + (bar.close - bar.sma_45) + (bar.close - bar.sma_60)
    + (bar.sma_30 - bar.sma_45) + (bar.sma_30 - bar.sma_60) + (bar.sma_45 + bar.sma_60)

\* the three spreads between the averages alone, the close left out
Numerator_spreads_only(bar) ==
    (bar.sma_30 - bar.sma_45) + (bar.sma_30 - bar.sma_60) + (bar.sma_45 - bar.sma_60)

Numerator(bar) ==
    (bar.close - bar.sma_30) + (bar.close - bar.sma_45) + (bar.close - bar.sma_60)
    + (bar.sma_30 - bar.sma_45) + (bar.sma_30 - bar.sma_60) + (bar.sma_45 - bar.sma_60)

\* current_atr + 0.0000000000000000001: in double precision the sum is
\* current_atr itself for every ATR of a price unit or more
Denominator(bar) == bar.atr

\* rs_score and total_weight after the first n passes of the loop
RECURSIVE ScoreLoop(_, _, _)
ScoreLoop(data, required, n) ==
    IF n = 0 THEN [rs_score |-> Zero, total_weight |-> 0]
    ELSE LET before == ScoreLoop(data, required, n - 1)
             i      == n - 1
             weight == Weight(i, required)
         IN  [rs_score |-> RatAdd(before.rs_score,
                                  Rat(Numerator(data[n]) * weight, Denominator(data[n]))),
              total_weight |-> before.total_weight + weight]

\* data.tail(n).reset_index(drop=True)
TailBars(data, n) == SubSeq(data, Len(data) - n + 1, Len(data))

\* data.head(n)
HeadBars(data, n) == SubSeq(data, 1, n)

MsgWeightError == "Weight calculation error"

\* calculate_rs_score refusing a window of exactly required_bars bars
calculate_rs_score_off_by_one(crypto_data, required) ==
    IF Len(crypto_data) <= required
    THEN [success |-> FALSE, rs_score |-> Zero,
          error |-> InsufficientData(Len(crypto_data), required),
          crypto_data |-> crypto_data, reads |-> 0]
    ELSE LET data == TailBars(crypto_data, required)
             sums == ScoreLoop(data, required, required)
         IN  IF sums.total_weight > 0
             THEN [success |-> TRUE,
                   rs_score |-> Rat(sums.rs_score.num,
                                    sums.rs_score.den * sums.total_weight),
                   error |-> "", crypto_data |-> crypto_data, reads |-> required]
             ELSE [success |-> FALSE, rs_score |-> Zero, error |-> MsgWeightError,
                   crypto_data |-> crypto_data, reads |-> 0]

\* calculate_rs_score scoring the oldest bars of the window, not the newest
calculate_rs_score_head(crypto_data, required) ==
    IF Len(crypto_data) < required
    THEN [success |-> FALSE, rs_score |-> Zero,
          error |-> InsufficientData(Len(crypto_data), required),
          crypto_data |-> crypto_data, reads |-> 0]
    ELSE LET data == HeadBars(crypto_data, required)
             sums == ScoreLoop(data, required, required)
         IN  IF sums.total_weight > 0
             THEN [success |-> TRUE,
                   rs_score |-> Rat(sums.rs_score.num,
                                    sums.rs_score.den * sums.total_weight),
                   error |-> "", crypto_data |-> crypto_data, reads |-> required]
             ELSE [success |-> FALSE, rs_score |-> Zero, error |-> MsgWeightError,
                   crypto_data |-> crypto_data, reads |-> 0]

\* calculate_rs_score(crypto_data, required_bars): the tuple it returns, the
\* frame it was given as the call leaves it, and the number of bars it read
calculate_rs_score(crypto_data, required) ==
    IF Len(crypto_data) < required
    THEN [success |-> FALSE, rs_score |-> Zero,
          error |-> InsufficientData(Len(crypto_data), required),
          crypto_data |-> crypto_data, reads |-> 0]
    ELSE LET data == TailBars(crypto_data, required)
             sums == ScoreLoop(data, required, required)
         IN  IF sums.total_weight > 0
             THEN [success |-> TRUE,
                   rs_score |-> Rat(sums.rs_score.num,
                                    sums.rs_score.den * sums.total_weight),
                   error |-> "", crypto_data |-> crypto_data, reads |-> required]
             ELSE [success |-> FALSE, rs_score |-> Zero, error |-> MsgWeightError,
                   crypto_data |-> crypto_data, reads |-> 0]

----------------------------------------------------------------------------
(* SpecScore: calculate_rs_score applied to a drawn window, then to the    *)
(* same window behind older bars or with a higher last close.              *)

\* a bar whose three averages equal its close, with an ATR of 1
FlatBar(c) == [close |-> c, sma_30 |-> c, sma_45 |-> c, sma_60 |-> c, atr |-> 1]

\* a bar above its averages, the short average above the long one
RisingBar == [close |-> 9, sma_30 |-> 7, sma_45 |-> 6, sma_60 |-> 4, atr |-> 2]

\* a bar below its averages
FallingBar == [close |-> 2, sma_30 |-> 3, sma_45 |-> 5, sma_60 |-> 6, atr |-> 1]

BarChoices == {FlatBar(3), RisingBar, FallingBar}

\* windows of up to MaxBars bars: any choice of bars, and flat bars whose
\* closes are 1, 2, 3, ...
Windows ==
    UNION {[1..n -> BarChoices] : n \in 0..MaxBars}
    \cup {[k \in 1..n |-> FlatBar(k)] : n \in 1..MaxBars}

\* older bars put before a window
Prefixes == {<<RisingBar>>, <<FallingBar, FlatBar(3)>>}

\* what is added to the last close
Raises == {1, 3}

WithLastClose(data, c) == [data EXCEPT ![Len(data)].close = c]

InitScore ==
    /\ now = 0
    /\ request_times = <<>>
    /\ consecutive_errors = 0
    /\ max_requests_per_minute = DefaultMaxRequestsPerMinute
    /\ error_backoff_multiplier = DefaultErrorBackoffMultiplier
    /\ calls = 0
    /\ last = NoCall
    /\ admitted = <<>>
    /\ delays = <<>>
    /\ LoopIdle
    /\ splitting = NoSplitting
    /\ sending = NoSending
    /\ \E w \in Windows, required \in 0..MaxBars :
          scoring = [NoScoring EXCEPT !.phase = "drawn", !.crypto_data = w,
                                      !.required_bars = required]

\* calculate_rs_score(crypto_data, required_bars)
Score ==
    /\ scoring.phase = "drawn"
    /\ LET r == calculate_rs_score(scoring.crypto_data, scoring.required_bars)
       IN  scoring' = [scoring EXCEPT !.phase = "scored", !.returned = r]
    /\ UNCHANGED <<rlvars, loopvars, notifyvars>>

\* calculate_rs_score(p ++ crypto_data, required_bars)
ScoreBehindPrefix ==
    /\ scoring.phase = "scored"
    /\ \E p \in Prefixes :
          LET longer == p \o scoring.crypto_data
          IN  scoring' = [scoring EXCEPT
                            !.phase = "compared", !.variant = "prefix",
                            !.other_data = longer,
                            !.other_returned =
                                calculate_rs_score(longer, scoring.required_bars)]
    /\ UNCHANGED <<rlvars, loopvars, notifyvars>>

\* calculate_rs_score of the window with the close of its newest bar raised
ScoreRaised ==
    /\ scoring.phase = "scored"
    /\ scoring.crypto_data # <<>>
    /\ \E d \in Raises :
          LET newest == scoring.crypto_data[Len(scoring.crypto_data)]
              higher == WithLastClose(scoring.crypto_data, newest.close + d)
          IN  scoring' = [scoring EXCEPT
                            !.phase = "compared", !.variant = "raised",
                            !.other_data = higher,
                            !.other_returned =
                                calculate_rs_score(higher, scoring.required_bars)]
    /\ UNCHANGED <<rlvars, loopvars, notifyvars>>

NextScore == Score \/ ScoreBehindPrefix \/ ScoreRaised

SpecScore == InitScore /\ [][NextScore]_vars

----------------------------------------------------------------------------
(* SpecSplit: DiscordNotifier._split_message applied to messages of a few  *)
(* lines, some of them longer than max_length.                             *)

\* message.split('\n')
RECURSIVE SplitLines(_)
SplitLines(text) ==
    IF \A k \in 1..Len(text) : SubSeq(text, k, k) # "\n"
    THEN <<text>>
    ELSE LET k == CHOOSE i \in 1..Len(text) :
                    /\ SubSeq(text, i, i) = "\n"
                    /\ \A j \in 1..(i - 1) : SubSeq(text, j, j) # "\n"
         IN  <<SubSeq(text, 1, k - 1)>> \o SplitLines(SubSeq(text, k + 1, Len(text)))

Whitespace == {" ", "\n", "\t", "\r"}

\* str.rstrip()
RECURSIVE RStrip(_)
RStrip(text) ==
    IF text # "" /\ SubSeq(text, Len(text), Len(text)) \in Whitespace
    THEN RStrip(SubSeq(text, 1, Len(text) - 1))
    ELSE text

\* while len(line) > max_length: chunks.append(line[:max_length]);
\* line = line[max_length:]
RECURSIVE CutLine(_, _)
CutLine(line, max_length) ==
    IF Len(line) > max_length
    THEN LET r == CutLine(SubSeq(line, max_length + 1, Len(line)), max_length)
         IN  [chunks |-> <<SubSeq(line, 1, max_length)>> \o r.chunks, line |-> r.line]
    ELSE [chunks |-> <<>>, line |-> line]

\* the for loop of _split_message over the lines from the k-th on
RECURSIVE SplitLoop(_, _, _, _, _)
SplitLoop(lines, k, chunks, current_chunk, max_length) ==
    IF k > Len(lines)
    THEN [chunks |-> chunks, current_chunk |-> current_chunk]
    ELSE LET line == lines[k]
         IN  IF Len(current_chunk) + Len(line) + 1 <= max_length
             THEN SplitLoop(lines, k + 1, chunks,
                            current_chunk \o (IF current_chunk # ""
                                              THEN line \o "\n" ELSE line),
                            max_length)
             ELSE IF current_chunk # ""
             THEN SplitLoop(lines, k + 1, Append(chunks, RStrip(current_chunk)),
                            line, max_length)
             ELSE LET cut == CutLine(line, max_length)
                  IN  SplitLoop(lines, k + 1, chunks \o cut.chunks, cut.line, max_length)

\* DiscordNotifier._split_message(message, max_length)
split_message(message, max_length) ==
    IF Len(message) <= max_length
    THEN <<message>>
    ELSE LET r == SplitLoop(SplitLines(message), 1, <<>>, "", max_length)
         IN  IF r.current_chunk # ""
             THEN Append(r.chunks, RStrip(r.current_chunk))
             ELSE r.chunks

\* lines of a message: empty, short, ending in a blank, long
SplitAlphabet == {"", "a", "bb ", "ccc", "ddddddd"}

\* max_length as the callers could pass it, scaled down from 1800
SplitLimits == {3, 5}

\* the messages of at most n lines
RECURSIVE MessagesUpTo(_)
MessagesUpTo(n) ==
    IF n = 1 THEN SplitAlphabet
    ELSE LET shorter == MessagesUpTo(n - 1)
         IN  shorter \cup {m \o "\n" \o line : m \in shorter, line \in SplitAlphabet}

InitSplit ==
    /\ now = 0
    /\ request_times = <<>>
    /\ consecutive_errors = 0
    /\ max_requests_per_minute = DefaultMaxRequestsPerMinute
    /\ error_backoff_multiplier = DefaultErrorBackoffMultiplier
    /\ calls = 0
    /\ last = NoCall
    /\ admitted = <<>>
    /\ delays = <<>>
    /\ LoopIdle
    /\ scoring = NoScoring
    /\ sending = NoSending
    /\ \E message \in MessagesUpTo(MaxLines), max_length \in SplitLimits :
          splitting = [NoSplitting EXCEPT !.phase = "drawn", !.message = message,
                                          !.max_length = max_length]

\* chunks = self._split_message(message, max_length)
Split ==
    /\ splitting.phase = "drawn"
    /\ splitting' = [splitting EXCEPT
                       !.phase = "split",
                       !.chunks = split_message(splitting.message, splitting.max_length)]
    /\ UNCHANGED <<rlvars, loopvars, scoring, sending>>

NextSplit == Split

SpecSplit == InitSplit /\ [][NextSplit]_vars

----------------------------------------------------------------------------
(* SpecSimilarity: send_similarity_results_to_discord, with the answers of  *)
(* the webhook and the state of the output directory drawn.                 *)

similarity_report_path == "similarity_search_report.txt"

tradingview_file_path == "2025-08-25_18-36_similar_trend_tradingview.txt"

\* what the directory similarity_output/20250825_180720 may hold
DirectoryItems ==
    {similarity_report_path, tradingview_file_path, "vis_15m",
     "2025-08-24_09-00_similar_trend_tradingview.txt", "notes.txt"}

StartsWith(text, prefix) ==
    /\ Len(text) >= Len(prefix)
    /\ SubSeq(text, 1, Len(prefix)) = prefix

\* what requests.post does: it raises, or the status code of the response
Responses == {"raise", "200", "204", "429"}

WebhookUrls == {"", "https://discord.com/api/webhooks/1/x"}

\* DiscordNotifier.send_message: True for status 204 only
send_message(enabled, webhook_url, response) ==
    IF ~enabled THEN FALSE
    ELSE IF webhook_url = "" THEN FALSE
    ELSE IF response = "raise" THEN FALSE
    ELSE response = "204"

\* DiscordNotifier.send_file: True for status 200 only
send_file(enabled, webhook_url, file_path, items, response) ==
    IF ~enabled THEN FALSE
    ELSE IF webhook_url = "" THEN FALSE
    ELSE IF file_path \notin items THEN FALSE
    ELSE IF response = "raise" THEN FALSE
    ELSE response = "200"

\* cleanup_local_files(*file_paths) in a directory holding items, of which
\* those in locked cannot be removed: what is left, and the value returned
cleanup_local_files(file_paths, items, locked) ==
    LET named     == {file_paths[k] : k \in DOMAIN file_paths} \cap items
        after1    == items \ (named \ locked)
        vis       == {i \in after1 : StartsWith(i, "vis_")}
        after2    == after1 \ (vis \ locked)
        remaining == {i \in after2 : EndsWith(i, "_similar_trend_tradingview.txt")}
        after3    == after2 \ (remaining \ locked)
    IN  [items |-> after3,
         directory_removed |-> after3 = {},
         success |-> (named \cup vis \cup remaining) \cap locked = {}]

\* the end of send_similarity_results_to_discord cleaning up after any send
\* that succeeded
finish_cleans_after_any(summary_sent, matches_sent, file_sent, items, locked) ==
    LET success_count == Cardinality({k \in 1..3 :
                            <<summary_sent, matches_sent, file_sent>>[k]})
    IN  IF success_count >= 1
        THEN LET c == cleanup_local_files(<<similarity_report_path,
                                            tradingview_file_path>>, items, locked)
             IN  [items |-> c.items, cleanup_called |-> TRUE,
                  cleanup_success |-> c.success, returned |-> success_count = 3]
        ELSE [items |-> items, cleanup_called |-> FALSE, cleanup_success |-> FALSE,
              returned |-> success_count = 3]

\* the end of send_similarity_results_to_discord: the sends are counted, the
\* files cleaned up if all three were sent, success_count == 3 returned
finish(summary_sent, matches_sent, file_sent, items, locked) ==
    LET success_count == Cardinality({k \in 1..3 :
                            <<summary_sent, matches_sent, file_sent>>[k]})
    IN  IF success_count = 3
        THEN LET c == cleanup_local_files(<<similarity_report_path,
                                            tradingview_file_path>>, items, locked)
             IN  [items |-> c.items, cleanup_called |-> TRUE,
                  cleanup_success |-> c.success, returned |-> success_count = 3]
        ELSE [items |-> items, cleanup_called |-> FALSE, cleanup_success |-> FALSE,
              returned |-> success_count = 3]

InitSimilarity ==
    /\ now = 0
    /\ request_times = <<>>
    /\ consecutive_errors = 0
    /\ max_requests_per_minute = DefaultMaxRequestsPerMinute
    /\ error_backoff_multiplier = DefaultErrorBackoffMultiplier
    /\ calls = 0
    /\ last = NoCall
    /\ admitted = <<>>
    /\ delays = <<>>
    /\ LoopIdle
    /\ scoring = NoScoring
    /\ splitting = NoSplitting
    /\ \E items \in SUBSET DirectoryItems, enabled \in BOOLEAN, url \in WebhookUrls :
          sending = [NoSending EXCEPT !.phase = "start", !.enabled = enabled,
                                      !.webhook_url = url, !.items0 = items,
                                      !.items = items]

\* the two files are looked for and the notifier is built
CheckFiles ==
    /\ sending.phase = "start"
    /\ IF similarity_report_path \notin sending.items
       THEN sending' = [sending EXCEPT !.phase = "returned", !.returned = FALSE]
       ELSE IF tradingview_file_path \notin sending.items
       THEN sending' = [sending EXCEPT !.phase = "returned", !.returned = FALSE]
       ELSE IF ~sending.enabled
       THEN sending' = [sending EXCEPT !.phase = "returned", !.returned = FALSE]
       ELSE sending' = [sending EXCEPT !.phase = "summary"]
    /\ UNCHANGED <<rlvars, loopvars, scoring, splitting>>

\* summary_sent = notifier.send_message(summary_message)
SendSummary ==
    /\ sending.phase = "summary"
    /\ \E response \in Responses :
          LET ok == send_message(sending.enabled, sending.webhook_url, response)
          IN  sending' = [sending EXCEPT
                            !.phase = "matches", !.summary_sent = ok,
                            !.log = Append(@, [what |-> "summary", ok |-> ok])]
    /\ UNCHANGED <<rlvars, loopvars, scoring, splitting>>

\* matches_sent = notifier.send_message(top_matches_message)
SendMatches ==
    /\ sending.phase = "matches"
    /\ \E response \in Responses :
          LET ok == send_message(sending.enabled, sending.webhook_url, response)
          IN  sending' = [sending EXCEPT
                            !.phase = "file", !.matches_sent = ok,
                            !.log = Append(@, [what |-> "top matches", ok |-> ok])]
    /\ UNCHANGED <<rlvars, loopvars, scoring, splitting>>

\* file_sent = notifier.send_file(tradingview_file_path, tv_message)
SendFile ==
    /\ sending.phase = "file"
    /\ \E response \in Responses :
          LET ok == send_file(sending.enabled, sending.webhook_url,
                              tradingview_file_path, sending.items, response)
          IN  sending' = [sending EXCEPT
                            !.phase = "finish", !.file_sent = ok,
                            !.log = Append(@, [what |-> "file", ok |-> ok])]
    /\ UNCHANGED <<rlvars, loopvars, scoring, splitting>>

\* the results summary, the cleanup and the return
Finish ==
    /\ sending.phase = "finish"
    /\ \E locked \in SUBSET sending.items :
          LET r == finish(sending.summary_sent, sending.matches_sent, sending.file_sent,
                          sending.items, locked)
          IN  sending' = [sending EXCEPT
                            !.phase = "returned", !.items = r.items,
                            !.cleanup_called = r.cleanup_called,
                            !.cleanup_success = r.cleanup_success,
                            !.returned = r.returned]
    /\ UNCHANGED <<rlvars, loopvars, scoring, splitting>>

NextSimilarity == CheckFiles \/ SendSummary \/ SendMatches \/ SendFile \/ Finish

SpecSimilarity == InitSimilarity /\ [][NextSimilarity]_vars

----------------------------------------------------------------------------
(* Properties of the RateLimiter *)

\* C2: in every state reachable by any interleaving of wait_if_needed,
\* on_error and on_success, consecutive_errors is an integer >= 0; on_success
\* at 0 leaves it at 0.
C2_CounterNeverNegative ==
    /\ consecutive_errors \in Nat
    /\ (last.op = "on_success" /\ last.n = 0) => consecutive_errors = 0

C2_Witness ==
    /\ last.op = "on_success"
    /\ last.n = 0
    /\ consecutive_errors = 0

\* C3, as claimed: over consecutive on_error calls with no on_success between,
\* a delay computed at a higher error count is never smaller than one computed
\* at a lower count, and no delay exceeds max_delay.
C3_DelayNonDecreasing ==
    /\ \A a, b \in DOMAIN delays :
          delays[a].n < delays[b].n => delays[a].delay <= delays[b].delay
    /\ \A a \in DOMAIN delays : delays[a].delay <= max_delay

\* C3, amended: the same for two delays computed with the same jitter and the
\* same request-frequency factor.
C3_DelayNonDecreasingFixedJitterLoad ==
    /\ \A a, b \in DOMAIN delays :
          (/\ delays[a].n < delays[b].n
           /\ delays[a].jitter = delays[b].jitter
           /\ delays[a].load = delays[b].load)
          => delays[a].delay <= delays[b].delay
    /\ \A a \in DOMAIN delays : delays[a].delay <= max_delay

C3_Witness ==
    \E a, b \in DOMAIN delays :
        /\ delays[a].n < delays[b].n
        /\ delays[a].jitter = delays[b].jitter
        /\ delays[a].load = delays[b].load
        /\ delays[a].delay < delays[b].delay
        /\ delays[b].delay = max_delay

\* the admitted requests recorded in the 60 seconds up to the k-th one,
\* itself included
InWindowBefore(k) ==
    {m \in 1..k : admitted[k] - admitted[m] < WindowSpan}

\* C4: every admitted request has at most max_requests_per_minute admitted
\* requests (itself included) in the 60 seconds before it, and the sliding
\* window never holds more than max_requests_per_minute entries.
C4_PerMinuteCap ==
    /\ \A k \in DOMAIN admitted :
          Cardinality(InWindowBefore(k)) <= max_requests_per_minute
    /\ Len(request_times) <= max_requests_per_minute

C4_Witness ==
    /\ last.op = "wait_if_needed"
    /\ last.capped
    /\ ~last.raised
    /\ max_requests_per_minute = 2
    /\ Len(request_times) = 2
    /\ Len(admitted) >= 3

IsSuffix(s, t) ==
    /\ Len(s) <= Len(t)
    /\ s = SubSeq(t, Len(t) - Len(s) + 1, Len(t))

\* what wait_if_needed leaves on return: the old window less a pruned prefix,
\* then one new timestamp, the current time and the newest of the window,
\* after sleeps that are finite: at most 61 seconds for the cap and max_delay
AdmittedOnce ==
    /\ ~last.raised
    /\ Len(request_times) >= 1
    /\ request_times[Len(request_times)] = now
    /\ IsSuffix(SubSeq(request_times, 1, Len(request_times) - 1), last.before)
    /\ \A k \in DOMAIN request_times : request_times[k] <= now
    /\ now - last.t0 = last.wait_time + Max(last.delay, 0)
    /\ last.wait_time <= WindowSpan + Second
    /\ last.delay <= max_delay

\* C5, as claimed: under every configuration, wait_if_needed returns without
\* raising, having appended exactly one new timestamp, the newest.
C5_AlwaysAdmits ==
    last.op = "wait_if_needed" => AdmittedOnce

\* C5, amended: the same under every configuration whose
\* max_requests_per_minute is at least 1.
C5_AlwaysAdmitsPositiveCap ==
    (last.op = "wait_if_needed" /\ max_requests_per_minute >= 1) => AdmittedOnce

C5_Witness ==
    /\ last.op = "wait_if_needed"
    /\ max_requests_per_minute >= 1
    /\ last.capped
    /\ Len(request_times) < Len(last.before) + 1
    /\ Len(request_times) >= 2

\* C8: for a message on_error takes as a rate-limit condition, the call sleeps
\* exactly min(5 * 2^(n-1), 60) seconds, n the counter after the increment.
C8_RateLimitBackoff ==
    (last.op = "on_error" /\ IsRateLimitError(last.msg))
    => /\ last.n = consecutive_errors
       /\ now - last.t0 = Min(5 * Pow(2, last.n - 1), 60) * Second

C8_Witness ==
    /\ last.op = "on_error"
    /\ IsRateLimitError(last.msg)
    /\ last.n >= 6
    /\ now - last.t0 = 60 * Second

\* a message that contains a rate-limit phrase in any letter case
MentionsRateLimit(error_msg) ==
    LET lowered == Lower(error_msg)
    IN  \/ Contains("too many requests", lowered)
        \/ Contains("rate limit", lowered)

\* C9: a message containing "too many requests" or "rate limit" in any letter
\* case gets the exponential rate-limit backoff.
C9_CaseInsensitiveDetection ==
    (last.op = "on_error" /\ MentionsRateLimit(last.msg))
    => now - last.t0 = Min(5 * Pow(2, last.n - 1), 60) * Second

\* C10: a message that is no rate-limit condition but carries the API-error
\* marker makes on_error sleep exactly min(1 * n, 10) seconds; a message that
\* is both gets the rate-limit backoff only.
C10_APIErrorBackoff ==
    /\ (last.op = "on_error" /\ ~IsRateLimitError(last.msg) /\ IsAPIError(last.msg))
       => now - last.t0 = Min(1 * last.n, 10) * Second
    /\ (last.op = "on_error" /\ IsRateLimitError(last.msg) /\ IsAPIError(last.msg))
       => now - last.t0 = Min(5 * Pow(2, last.n - 1), 60) * Second

C10_Witness ==
    /\ last.op = "on_error"
    /\ last.msg = MsgAPIError
    /\ last.n > 10
    /\ now - last.t0 = 10 * Second

\* the last entry of delays, the delay the last wait_if_needed computed
LastDelay == delays[Len(delays)]

\* the delay of the same call had the counter been 0
HealedDelay ==
    Min((((base_delay * LastDelay.load) \div 10) * LastDelay.jitter) \div 100, max_delay)

\* C11: on_success takes consecutive_errors from c to max(0, c - 1) and leaves
\* the window, the clock and the configuration as they were; from c >= 2 the
\* counter is left at c - 1, not 0, and the delay of the next wait_if_needed
\* is the base delay times error_backoff_multiplier ^ min(c - 1, 5) (times
\* load and jitter, clamped), above the delay of a healed limiter.
C11_GradualHealing ==
    /\ last.op = "on_success"
       => /\ consecutive_errors = Max(0, last.n - 1)
          /\ request_times = last.before
          /\ now = last.t0
          /\ max_requests_per_minute = DefaultMaxRequestsPerMinute
          /\ error_backoff_multiplier = DefaultErrorBackoffMultiplier
          /\ last.n >= 2 => consecutive_errors = last.n - 1 /\ consecutive_errors > 0
    /\ (last.op = "wait_if_needed" /\ last.after = "on_success" /\ last.n >= 1)
       => /\ LastDelay.n = last.n
          /\ last.delay =
                Min((((base_delay * Pow(error_backoff_multiplier, Min(last.n, 5))
                       * LastDelay.load) \div 10) * LastDelay.jitter) \div 100,
                    max_delay)
          /\ last.delay > HealedDelay

C11_Witness ==
    /\ last.op = "wait_if_needed"
    /\ last.after = "on_success"
    /\ last.n = 2
    /\ consecutive_errors = 2
    /\ last.delay = 4 * HealedDelay

\* C22: the cap wait of wait_if_needed lies in (1, 61] seconds, its dynamic
\* delay is at most max_delay, the rate-limit backoff of on_error is at most
\* 60 seconds and the API-error backoff at most 10; no sleep is negative and
\* the clock moves by the sleeps and nothing else.
C22_EveryWaitBounded ==
    /\ (last.op = "wait_if_needed" /\ ~last.raised)
       => /\ last.capped => (last.wait_time > Second /\ last.wait_time <= 61 * Second)
          /\ ~last.capped => last.wait_time = 0
          /\ last.delay <= max_delay
          /\ now - last.t0 = last.wait_time + Max(last.delay, 0)
          /\ now - last.t0 <= 61 * Second + max_delay
    /\ last.op = "on_error"
       => /\ last.backoff_time >= 0
          /\ now - last.t0 = last.backoff_time
          /\ IsRateLimitError(last.msg) => last.backoff_time <= 60 * Second
          /\ (~IsRateLimitError(last.msg) /\ IsAPIError(last.msg))
             => last.backoff_time <= 10 * Second
          /\ last.backoff_time <= 60 * Second

C22_Witness ==
    /\ last.op = "wait_if_needed"
    /\ last.capped
    /\ last.wait_time > 50 * Second
    /\ last.wait_time < 61 * Second
    /\ last.delay > 6 * Second
    /\ last.n > 5

\* the time at which the last wait_if_needed computed its delay
DelayTime == last.t0 + last.wait_time

\* the timestamps of the window, as the call found it, that were less than
\* 10 seconds old when the delay was computed
RecentAtDelay ==
    Cardinality({k \in DOMAIN last.before : DelayTime - last.before[k] < 10 * Second})

\* C23: the dynamic delay is min(base_delay * m^min(e,5) * load * jitter,
\* max_delay): the error factor only when e > 0, load 1.5 for more than 20
\* timestamps in the last 10 seconds, 1.2 for more than 15, else 1, jitter in
\* [0.8, 1.2]; from e = 5 on the delay no longer grows with e.
C23_DynamicDelayFormula ==
    /\ (last.op = "wait_if_needed" /\ ~last.raised)
       => LET e      == last.n
              m      == error_backoff_multiplier
              factor == IF e > 0 THEN Pow(m, Min(e, 5)) ELSE 1
              load   == IF RecentAtDelay > 20 THEN 15
                        ELSE IF RecentAtDelay > 15 THEN 12
                        ELSE 10
              jitter == LastDelay.jitter
          IN  /\ jitter >= 80 /\ jitter <= 120
              /\ LastDelay.n = e
              /\ LastDelay.load = load
              /\ last.delay = LastDelay.delay
              /\ last.delay
                    = Min(((((base_delay * factor) * load) \div 10) * jitter) \div 100,
                          max_delay)
    /\ \A a, b \in DOMAIN delays :
          (/\ delays[a].n >= 5 /\ delays[b].n >= 5
           /\ delays[a].load = delays[b].load
           /\ delays[a].jitter = delays[b].jitter)
          => delays[a].delay = delays[b].delay

C23_Witness ==
    /\ last.op = "wait_if_needed"
    /\ Len(delays) = 2
    /\ delays[1].n = 5
    /\ delays[1].load = 12
    /\ delays[1].jitter = 80
    /\ delays[1].delay = (768 * Second) \div 100
    /\ last.n = 6
    /\ RecentAtDelay < 16
    /\ LastDelay.jitter = 80
    /\ last.delay = (64 * Second) \div 10

----------------------------------------------------------------------------
(* Properties of the symbol loop *)

FullWindow(f) == f.kind = "data" /\ f.bars >= required_bars

\* C1: an uninterrupted run leaves one result per symbol, in input order; a
\* symbol whose fetch raised is failed with the exception's message as reason,
\* a symbol whose fetch returned a full window is a success, and no exception
\* stops the loop.
C1_BatchIsolation ==
    /\ interrupted = "no" => pc # "aborted"
    /\ (pc = "done" /\ interrupted = "no")
       => /\ Len(results) = Len(all_cryptos)
          /\ Len(outcomes) = Len(all_cryptos)
          /\ \A k \in DOMAIN results :
                /\ results[k].crypto = all_cryptos[k]
                /\ outcomes[k].kind = "raise"
                   => /\ results[k].status = "failed"
                      /\ results[k].reason = outcomes[k].msg
                /\ FullWindow(outcomes[k]) => results[k].status = "success"

C1_Witness ==
    /\ pc = "done"
    /\ interrupted = "no"
    /\ Len(all_cryptos) >= 3
    /\ FullWindow(outcomes[1]) /\ results[1].status = "success"
    /\ outcomes[2].kind = "raise" /\ results[2].status = "failed"
    /\ FullWindow(outcomes[3]) /\ results[3].status = "success"

IsPrefixOfSymbols(rs) ==
    /\ Len(rs) <= Len(all_cryptos)
    /\ \A k \in DOMAIN rs : rs[k].crypto = all_cryptos[k]

\* C6: once an interrupt has arrived during the symbol loop, no request is
\* issued for a later symbol, and ranking and output still run, over exactly
\* the results collected before the interrupt, a prefix of the symbol list.
C6_InterruptStillRanks ==
    interrupted # "no"
    => /\ pc \in {"rank", "output", "done"}
       /\ \A k \in DOMAIN requests : requests[k] <= started
       /\ IsPrefixOfSymbols(results)
       /\ pc = "done" => ranked = ProcessResults(results)

\* the number of calls process_crypto made on the limiter for the k-th symbol
SignalsFor(k) == Cardinality({j \in DOMAIN signals : signals[j].at = k})

LoopStopped == pc \in {"rank", "output", "done", "aborted"}

SignalOf(k) == signals[CHOOSE j \in DOMAIN signals : signals[j].at = k]

\* one call on the limiter, the one that matches the result r of symbol k
OneMatchingSignal(k, r) ==
    /\ SignalsFor(k) = 1
    /\ r.status \in {"success", "failed"}
    /\ SignalOf(k).op \in {"on_success", "on_error"}
    /\ SignalOf(k).op = "on_success" <=> r.status = "success"
    /\ SignalOf(k).op = "on_error" <=> r.status = "failed"
    /\ r.status = "failed" => SignalOf(k).msg = r.reason

\* C12: for every symbol that yields a result exactly one call is made on the
\* limiter: on_success iff the result is a success, on_error with the recorded
\* reason iff it is a failure; no symbol gets two calls.
C12_OneFeedbackPerResult ==
    /\ \A k \in DOMAIN all_cryptos : SignalsFor(k) <= 1
    /\ \A k \in DOMAIN results : OneMatchingSignal(k, results[k])
    /\ pc = "append" => OneMatchingSignal(idx, result)

C12_Witness ==
    /\ Len(results) = 3
    /\ results[1].status = "success" /\ SignalOf(1).op = "on_success"
    /\ results[2].status = "failed" /\ SignalOf(2).op = "on_error"
    /\ SignalOf(2).msg = MsgAPIError /\ results[2].reason = MsgAPIError
    /\ results[3].status = "failed"
    /\ SignalOf(3).msg = InsufficientData(ShortBars, required_bars)
    /\ Len(signals) = 3

\* the step in which the loop calls on_error with a message that holds
\* neither a rate-limit phrase nor "APIError"
PlainErrorStep ==
    /\ pc = "feedback" /\ pc' = "append"
    /\ last'.op = "on_error"
    /\ ~IsRateLimitError(last'.msg)
    /\ ~IsAPIError(last'.msg)

\* C26: on_error called with a message that contains neither a rate-limit
\* phrase nor "APIError" does not sleep: it adds 1 to consecutive_errors and
\* leaves the clock and the sliding window as they were.
C26_PlainErrorDoesNotSleep ==
    [][PlainErrorStep
       => /\ now' = now
          /\ last'.backoff_time = 0
          /\ consecutive_errors' = consecutive_errors + 1
          /\ request_times' = request_times
          /\ max_requests_per_minute' = max_requests_per_minute
          /\ error_backoff_multiplier' = error_backoff_multiplier]_vars

C26_Witness ==
    /\ pc = "append"
    /\ last.op = "on_error"
    /\ last.msg = InsufficientData(ShortBars, required_bars)
    /\ last.n = 2
    /\ now = last.t0
    /\ Len(signals) = 2
    /\ signals[1].msg = "Failed to get data or empty dataset"
    /\ request_times = last.before

NoDataFetch(f) == f.kind \in {"failed", "empty"}

\* C13: a symbol whose fetch reports failure or returns an empty frame is
\* recorded as failed with the reason "Failed to get data or empty dataset",
\* on_error is called with that reason, calculate_rs_score is not called for
\* it, and the loop goes on to the next symbol.
C13_NoDataFailure ==
    /\ \A k \in DOMAIN signals :
          (k \in DOMAIN outcomes /\ NoDataFetch(outcomes[k]))
          => /\ signals[k].at = k
             /\ signals[k].op = "on_error"
             /\ signals[k].msg = "Failed to get data or empty dataset"
             /\ ~signals[k].scored
    /\ \A k \in DOMAIN results :
          (k \in DOMAIN outcomes /\ NoDataFetch(outcomes[k]))
          => /\ results[k] = Failed(all_cryptos[k], "Failed to get data or empty dataset")
             /\ (LoopStopped /\ interrupted = "no")
                => Len(results) = Len(all_cryptos)
             /\ (pc = "fetch" /\ idx = k + 1) => requests = [j \in 1..k |-> j]

C13_Witness ==
    /\ pc = "done"
    /\ interrupted = "no"
    /\ Len(results) = 3
    /\ outcomes[1].kind = "empty" /\ results[1].status = "failed"
    /\ outcomes[2].kind = "failed" /\ results[2].status = "failed"
    /\ requests = <<1, 2, 3>>
    /\ results[3].status = "success"

\* C14: for each symbol wait_if_needed is called once and has returned before
\* the symbol's fetch is issued; the admission of the next symbol begins only
\* after the result of this one is recorded and its on_success or on_error,
\* backoff sleep included, has returned; a fetch is issued only when every
\* earlier fetch has been answered.
C14_StrictSequencing ==
    /\ Len(requests) <= Len(admitted)
    /\ Len(admitted) <= Len(results) + 1
    /\ Len(results) <= Len(signals)
    /\ Len(signals) <= Len(requests)
    /\ \A k \in DOMAIN requests : requests[k] = k
    /\ \A k \in DOMAIN signals :
          /\ signals[k].at = k
          /\ signals[k].t >= admitted[k] + FetchTime
    /\ \A k \in DOMAIN admitted : k > 1 => admitted[k] >= signals[k - 1].t
    /\ (last.op = "wait_if_needed" /\ Len(admitted) >= 2)
       => last.t0 >= signals[Len(admitted) - 1].t
    /\ pc = "wait" => Len(admitted) = idx - 1 /\ Len(results) = idx - 1
    /\ pc = "fetch" => /\ Len(admitted) = idx
                       /\ Len(requests) = idx - 1
                       /\ Len(signals) = idx - 1
    /\ (LoopStopped /\ interrupted = "no") => Len(admitted) = Len(all_cryptos)

C14_Witness ==
    /\ pc = "fetch"
    /\ idx = 3
    /\ Len(admitted) = 3
    /\ requests = <<1, 2>>
    /\ signals[2].op = "on_error"
    /\ signals[2].t - admitted[2] > FetchTime
    /\ last.t0 = signals[2].t
    /\ admitted[3] > signals[2].t

BarsPerDay ==
    ("5m" :> 288) @@ ("15m" :> 96) @@ ("30m" :> 48) @@ ("1h" :> 24)
    @@ ("2h" :> 12) @@ ("4h" :> 6) @@ ("8h" :> 3)

SecondsPerBar ==
    ("5m" :> 300) @@ ("15m" :> 900) @@ ("30m" :> 1800) @@ ("1h" :> 3600)
    @@ ("2h" :> 7200) @@ ("4h" :> 14400) @@ ("8h" :> 28800)

\* C24: calc_total_bars gives, for each of the codes 5m, 15m, 30m, 1h, 2h, 4h
\* and 8h, the bars of a day (288, 96, 48, 24, 12, 6, 3) times the days; every
\* fetch asks for the window that ends at the whole second of the call and
\* starts required_bars * seconds-per-bar * 1.2 seconds, truncated, before it.
C24_BarsAndWindow ==
    /\ \A tf \in KnownTimeframes :
          \A d \in 0..(MaxDays + 1) : calc_total_bars(tf, d) = BarsPerDay[tf] * d
    /\ timeframe \in KnownTimeframes => required_bars = BarsPerDay[timeframe] * days
    /\ \A k \in DOMAIN windows :
          LET w == windows[k]
          IN  /\ w.timeframe = timeframe
              /\ timeframe \in KnownTimeframes
              /\ w.end_ts = w.at \div Second
              /\ w.start_ts
                    = w.end_ts
                      - (BarsPerDay[timeframe] * days * SecondsPerBar[timeframe] * 12) \div 10
    /\ pc = "feedback" /\ fetched.kind # "raise" /\ windows # <<>>
       => /\ windows[Len(windows)].at = now - FetchTime
          /\ windows[Len(windows)].symbol = all_cryptos[idx]

C24_Witness ==
    /\ timeframe = "8h"
    /\ days = 2
    /\ Len(windows) = 2
    /\ windows[1].symbol = "BTCUSDT"
    /\ windows[2].symbol = "ETHUSDT"
    /\ windows[2].end_ts >= 1
    /\ windows[2].end_ts - windows[2].start_ts = 207360

----------------------------------------------------------------------------
(* Properties of the ranking *)

\* the place of a symbol in the results, which is its place in the iteration
PlaceOf(crypto) == CHOOSE k \in DOMAIN results : results[k].crypto = crypto

\* the score process_crypto returned for a symbol
ScoreOf(crypto) == results[PlaceOf(crypto)].rs_score

Successes == {results[k].crypto : k \in {j \in DOMAIN results : results[j].status = "success"}}

\* targets holds every successful symbol once, by score descending, equal
\* scores in iteration order
RankedStably(targets) ==
    /\ {targets[k] : k \in DOMAIN targets} = Successes
    /\ Len(targets) = Cardinality(Successes)
    /\ \A a, b \in DOMAIN targets :
          a < b => /\ ScoreOf(targets[a]) >= ScoreOf(targets[b])
                   /\ ScoreOf(targets[a]) = ScoreOf(targets[b])
                      => PlaceOf(targets[a]) < PlaceOf(targets[b])

\* C15: the ranked list contains every successful symbol exactly once, by
\* score descending, and two symbols of equal score stand in their iteration
\* order.
C15_RankingOrder ==
    pc = "done" => RankedStably(ranked.targets)

C15_Witness ==
    /\ pc = "done"
    /\ Len(results) = 3
    /\ results[1].rs_score = 1 /\ results[1].status = "success"
    /\ results[2].rs_score = 2 /\ results[2].status = "success"
    /\ results[3].rs_score = 1 /\ results[3].status = "success"
    /\ ranked.targets = <<all_cryptos[2], all_cryptos[1], all_cryptos[3]>>

\* the number of ranked entries an artifact may show
Shown == Min(20, Cardinality(Successes))

\* text.count(c) for a single character c
CountChar(text, c) == Cardinality({i \in 1..Len(text) : SubSeq(text, i, i) = c})

\* the number of comma-separated entries on the line after the header
FileEntries(text) ==
    IF Len(text) <= Len(TxtHeader) THEN 0 ELSE CountChar(text, ",") + 1

\* the entries of the message: its lines less three above and four below
MessageEntries(message) == SubSeq(message, 4, Len(message) - 4)

\* every artifact shows the first Shown entries of the ranking and no more
ArtifactsShowTop ==
    /\ Len(output.console) = Shown
    /\ \A k \in 1..Shown :
          output.console[k]
             = EntryLine(k, ranked.targets[k], ScoreOf(ranked.targets[k]))
    /\ FileEntries(output.txt_content) = Shown
    /\ output.txt_content
          = TxtHeader \o Join(",", [k \in 1..Shown |->
                                      "BINANCE:" \o ranked.targets[k] \o ".P"])
    /\ output.formatted
       => /\ Len(MessageEntries(output.message)) = Shown
          /\ MessageEntries(output.message) = output.console

\* C16, as claimed: console list, file line and Discord message have exactly
\* min(20, number of successes) entries, the first of the full ranking,
\* strictly descending by score.
C16_TopNStrictlyDescending ==
    pc = "done"
    => /\ ArtifactsShowTop
       /\ \A a, b \in 1..Shown :
             a < b => ScoreOf(ranked.targets[a]) > ScoreOf(ranked.targets[b])

\* C16, amended: the same entries, by score descending, equal scores in
\* iteration order, the message being there only when it was formatted.
C16_TopNDescending ==
    pc = "done"
    => /\ ArtifactsShowTop
       /\ \A a, b \in 1..Shown :
             a < b => /\ ScoreOf(ranked.targets[a]) >= ScoreOf(ranked.targets[b])
                      /\ ScoreOf(ranked.targets[a]) = ScoreOf(ranked.targets[b])
                         => PlaceOf(ranked.targets[a]) < PlaceOf(ranked.targets[b])

C16_Witness ==
    /\ pc = "done"
    /\ Cardinality(Successes) = 25
    /\ Len(ranked.targets) = 25
    /\ Len(output.console) = 20
    /\ FileEntries(output.txt_content) = 20
    /\ output.formatted
    /\ Len(MessageEntries(output.message)) = 20
    /\ output.console[1] = "1. ALT25: 13.000000"
    /\ output.console[18] = "18. ALT7: 4.000000"
    /\ output.console[19] = "19. ALT8: 4.000000"
    /\ output.console[20] = "20. BNBUSDC: 3.000000"

\* the places of the symbol in the targets, and in the failed targets
InTargets(crypto) == {k \in DOMAIN ranked.targets : ranked.targets[k] = crypto}

InFailed(crypto) ==
    {k \in DOMAIN ranked.failed_targets : ranked.failed_targets[k][1] = crypto}

\* C27: at the end of a run the number reported as processed is the number
\* of ranked symbols plus the number of recorded failures, and every result
\* collected is in exactly one of the two: the targets or the failed targets.
C27_SummaryCountsConsistent ==
    pc = "done"
    => /\ output.processed = output.succeeded + output.failed
       /\ output.succeeded = Len(ranked.targets)
       /\ output.failed = Len(ranked.failed_targets)
       /\ \A k \in DOMAIN results :
             Cardinality(InTargets(results[k].crypto))
             + Cardinality(InFailed(results[k].crypto)) = 1

----------------------------------------------------------------------------
(* Properties of calculate_rs_score *)

Scored == scoring.phase \in {"scored", "compared"}

\* the window calculate_rs_score goes through, when there are bars enough
Trimmed == TailBars(scoring.crypto_data, scoring.required_bars)

\* r is what C17 says of calculate_rs_score(data, required)
InsufficientRule(data, required, r) ==
    /\ r.crypto_data = data
    /\ Len(data) < required
       => /\ r.success = FALSE
          /\ r.rs_score = Zero
          /\ r.error = "Insufficient data: " \o ToString(Len(data)) \o " < "
                          \o ToString(required)
          /\ r.reads = 0
    /\ Len(data) >= required
       => ~(r.success = FALSE /\ Contains("Insufficient data", r.error))

\* C17: for a window of fewer than required_bars bars calculate_rs_score
\* returns (False, 0, "Insufficient data: ...") having read no bar and left
\* its input as it was; for a window of at least required_bars bars it does
\* not return that failure.
C17_InsufficientData ==
    /\ Scored
       => InsufficientRule(scoring.crypto_data, scoring.required_bars, scoring.returned)
    /\ scoring.phase = "compared"
       => InsufficientRule(scoring.other_data, scoring.required_bars,
                           scoring.other_returned)

C17_Witness ==
    /\ scoring.phase = "scored"
    /\ scoring.required_bars = 5
    /\ Len(scoring.crypto_data) = 4
    /\ scoring.returned.error = "Insufficient data: 4 < 5"
    /\ ~scoring.returned.success

SameResult(r1, r2) ==
    /\ r1.success = r2.success
    /\ r1.rs_score = r2.rs_score
    /\ r1.error = r2.error

\* C18: for a window w of at least required_bars bars and any older bars p,
\* calculate_rs_score(p ++ w, required_bars) returns what
\* calculate_rs_score(w, required_bars) returns.
C18_PrefixInvariance ==
    (/\ scoring.variant = "prefix"
     /\ Len(scoring.crypto_data) >= scoring.required_bars)
    => SameResult(scoring.returned, scoring.other_returned)

C18_Witness ==
    /\ scoring.variant = "prefix"
    /\ scoring.required_bars = 3
    /\ Len(scoring.crypto_data) = 3
    /\ Len(scoring.other_data) = 5
    /\ scoring.returned.success
    /\ scoring.returned.rs_score.num > 0
    /\ scoring.other_returned.rs_score = scoring.returned.rs_score

FlatAtOne(bar) ==
    /\ bar.sma_30 = bar.close
    /\ bar.sma_45 = bar.close
    /\ bar.sma_60 = bar.close
    /\ bar.atr = 1

\* C19: the numerator of a bar is 3*close + sma_30 - sma_45 - 3*sma_60; when
\* in every bar of the trimmed window the three averages equal the close and
\* ATR is 1, it is 0 for every bar and the score returned is exactly 0.
C19_DegenerateZero ==
    Scored
    => /\ \A k \in DOMAIN scoring.crypto_data :
             LET bar == scoring.crypto_data[k]
             IN  Numerator(bar)
                    = 3 * bar.close + bar.sma_30 - bar.sma_45 - 3 * bar.sma_60
       /\ (/\ Len(scoring.crypto_data) >= scoring.required_bars
           /\ \A k \in DOMAIN Trimmed : FlatAtOne(Trimmed[k]))
          => /\ \A k \in DOMAIN Trimmed : Numerator(Trimmed[k]) = 0
             /\ scoring.returned.rs_score = Zero
             /\ scoring.required_bars >= 1 => scoring.returned.success

C19_Witness ==
    /\ scoring.phase = "scored"
    /\ scoring.required_bars = 5
    /\ scoring.crypto_data = [k \in 1..5 |-> FlatBar(k)]
    /\ scoring.returned.success
    /\ scoring.returned.rs_score = Zero

TotalWeight == ScoreLoop(Trimmed, scoring.required_bars, scoring.required_bars).total_weight

\* C21, as claimed: for every call whose window holds at least required_bars
\* bars the total weight is > 0 and "Weight calculation error" is not
\* returned.
C21_WeightErrorUnreachable ==
    (Scored /\ Len(scoring.crypto_data) >= scoring.required_bars)
    => /\ TotalWeight > 0
       /\ scoring.returned.error # "Weight calculation error"

\* C21, amended: the same for every call with required_bars >= 1; with
\* required_bars = 0 the loop does not run, the total weight is 0 and
\* "Weight calculation error" is what every window gets.
C21_WeightErrorOnlyWithoutBars ==
    /\ (/\ Scored
        /\ Len(scoring.crypto_data) >= scoring.required_bars
        /\ scoring.required_bars >= 1)
       => /\ TotalWeight > 0
          /\ scoring.returned.error # "Weight calculation error"
    /\ (Scored /\ scoring.required_bars = 0)
       => /\ TotalWeight = 0
          /\ scoring.returned.success = FALSE
          /\ scoring.returned.rs_score = Zero
          /\ scoring.returned.error = "Weight calculation error"

C21_Witness ==
    /\ scoring.phase = "scored"
    /\ scoring.required_bars = 1
    /\ Len(scoring.crypto_data) = 3
    /\ TotalWeight = WeightScale
    /\ scoring.returned.success

----------------------------------------------------------------------------
(* Properties of the Discord notifier *)

\* C28: every chunk _split_message returns is at most max_length long, also
\* for a message in which a line longer than max_length follows a chunk
\* that is not empty.
C28_ChunksWithinLimit ==
    splitting.phase = "split"
    => \A k \in DOMAIN splitting.chunks :
          Len(splitting.chunks[k]) <= splitting.max_length

RECURSIVE Flatten(_)
Flatten(seqs) ==
    IF seqs = <<>> THEN <<>>
    ELSE Flatten(SubSeq(seqs, 1, Len(seqs) - 1)) \o seqs[Len(seqs)]

\* the lines of the chunks, in order
ChunkLines ==
    Flatten([k \in DOMAIN splitting.chunks |-> SplitLines(splitting.chunks[k])])

\* the lines of the message, those longer than max_length cut into pieces
CutLines ==
    LET lines == SplitLines(splitting.message)
    IN  Flatten([k \in DOMAIN lines |->
                   LET cut == CutLine(lines[k], splitting.max_length)
                   IN  Append(cut.chunks, cut.line)])

\* lines compared without their trailing whitespace and without the lines
\* that are empty
Stripped(lines) ==
    SelectSeq([k \in DOMAIN lines |-> RStrip(lines[k])], LAMBDA l : l # "")

\* C29: the lines of the chunks, in order, are the lines of the message: none
\* merged with another, none dropped, none out of place, apart from
\* whitespace stripped at the end of a chunk and long lines cut at max_length.
C29_SplitKeepsLines ==
    splitting.phase = "split" => Stripped(ChunkLines) = Stripped(CutLines)

\* the sends made so far, by what was sent
SendOrder == [k \in DOMAIN sending.log |-> sending.log[k].what]

AllSent ==
    /\ Len(sending.log) = 3
    /\ \A k \in DOMAIN sending.log : sending.log[k].ok

====
